---- MODULE Spec2Model ----
(***************************************************************************)
(* A model of the ClickUp dashboard's data pipeline                        *)
(* (src/services/clickupService.ts): the resilient fetch layer             *)
(* (fetchWithRetry), the task and space data access (fetchSpaces,          *)
(* fetchTeamTasks, fetchTaskComments) and the comment enrichment pipeline  *)
(* (enrichProjectsWithComments).                                           *)
(*                                                                         *)
(* JavaScript is single threaded: a handler runs from one await to the     *)
(* next without interruption.  Every action below is one such run: the     *)
(* arrival of a response or the firing of a timer, followed by all the     *)
(* synchronous code up to the next await.                                  *)
(*                                                                         *)
(* Time is counted in whole seconds (the code counts milliseconds): the    *)
(* code's 30 * 24 * 60 * 60 * 1000 does not fit TLC's 32-bit integers.     *)
(***************************************************************************)
EXTENDS Integers, Sequences, FiniteSets, TLC

VARIABLES
    \* ---- one call of fetchSpaces or fetchTeamTasks ----
    call,         \* "none" | "spaces" | "tasks" | "comments": the call in progress
    fwr,          \* the locals of the fetchWithRetry call in progress
    sleeps,       \* the delays fetchWithRetry has slept in this call, oldest first
    page,         \* fetchTeamTasks: let page
    hasMore,      \* fetchTeamTasks: let hasMore
    allTasks,     \* fetchTeamTasks: let allTasks
    pageError,    \* fetchTeamTasks: the pageError caught last, or NoError
    outcome,      \* what the call returned or threw, once it has ended
    lastResult,   \* history: what the most recent fetch() did
    ended,        \* history: how the most recent fetchWithRetry call ended
    bodyRead,     \* the body read the call awaits: "none" | "json" | "text" | "clone"
    \* ---- one call of enrichProjectsWithComments ----
    heap,         \* the project and task objects, by address
    callerHeap,   \* history: the heap as it was when the enrichment was called
    projects,     \* the caller's array: addresses of the input projects
    upstream,     \* the upstream of this call: "faulty" | "dropping" | "none"
    thirtyDaysAgo,\* const thirtyDaysAgo
    tasksToFetch, \* const tasksToFetch
    chunkStart,   \* the for loop's i
    inflight,     \* the fetchTaskComments calls of the current chunk, by position
    results,      \* const results
    enrichedProjects, \* the returned array: addresses of the copies
    epc,          \* where enrichProjectsWithComments stands
    \* ---- one call of processTasksIntoProjects, and one on reordered tasks ----
    rawTasks,     \* the argument tasks
    processed,    \* the array the call returned
    reordered,    \* the same tasks in another order
    reprocessed,  \* the array the call on the reordered tasks returned
    apc,          \* where the aggregation stands
    \* ---- one session of the dashboard (App.tsx) ----
    localStorage, \* the four entries of the snapshot in browser storage
    app,          \* the state hooks of the App component
    refreshes,    \* the initApp, loadAllData and loadSpaceData calls so far
    aiCalls,      \* history: the generateDashboardSummary calls, with their arguments
    lastSave,     \* history: the last saveToCache call and the setItem that threw
    clicks        \* how many rows of the project table and panel buttons were clicked

fetchVars == <<call, fwr, sleeps, page, hasMore, allTasks, pageError, outcome,
               lastResult, ended, bodyRead>>
enrichVars == <<heap, callerHeap, projects, upstream, thirtyDaysAgo, tasksToFetch, chunkStart, inflight,
                results, enrichedProjects, epc>>
aggVars == <<rawTasks, processed, reordered, reprocessed, apc>>
appVars == <<localStorage, app, refreshes, aiCalls, lastSave, clicks>>
vars == <<fetchVars, enrichVars, aggVars, appVars>>

\* What an action of the fetch calls leaves alone, what an action of the
\* enrichment leaves alone, what an action of the aggregation leaves alone,
\* and what an action of the dashboard leaves alone.
notFetchVars == <<enrichVars, aggVars, appVars>>
notEnrichVars == <<fetchVars, aggVars, appVars>>
notAggVars == <<fetchVars, enrichVars, appVars>>
notAppVars == <<fetchVars, enrichVars, aggVars>>

(***************************************************************************)
(* Program constants                                                       *)
(***************************************************************************)
MAX_PAGES == 50
PAGE_SIZE == 100
DefaultRetries == 3
DefaultBaseDelay == 1000
TaskRetries == 4
TaskBaseDelay == 1000
CommentRetries == 2
CommentBaseDelay == 500
JitterRange == 500
chunkSize == 6

(***************************************************************************)
(* The network: what one fetch() can do                                    *)
(***************************************************************************)
\* HTTP statuses the upstream and the proxy answer with.
Statuses == {200, 404, 429, 503}

\* Math.random() * 500 lies in [0, 500): its two ends.
JitterChoices == {0, JitterRange - 1}

\* The number of tasks a page can hold: the API returns at most PAGE_SIZE.
PageLens == {0, 1, PAGE_SIZE - 1, PAGE_SIZE}

NoError == [kind |-> "none", status |-> 0, page |-> 0]
NoBody == [kind |-> "none", n |-> 0]
NoResponse == [status |-> 0, body |-> NoBody]
\* The body of a response that is not OK: an error text, read at most as text.
ErrorBody == [kind |-> "error", n |-> 0]

\* response.ok
ResponseOk(response) == response.status >= 200 /\ response.status <= 299

\* The body read that follows a response: response.text() for the error text
\* of a response that is not OK, response.json() otherwise.
BodyRead(response) == IF ResponseOk(response) THEN "json" ELSE "text"

\* The bodies of a task-page response: JSON with a tasks array of n tasks, JSON
\* with no tasks array, an HTML page (<!DOCTYPE html>), or other unparsable text.
TaskBodies ==
    {[kind |-> "tasks", n |-> n] : n \in PageLens}
        \cup {[kind |-> k, n |-> 0] : k \in {"noarray", "html", "garbage"}}

\* The bodies of a space-listing response.
SpaceBodies == {[kind |-> k, n |-> 0] : k \in {"spaces", "noarray", "garbage"}}

\* One fetch(): it throws (a network failure) or resolves to a response, whose
\* body is one of bodies when the status is OK.
NetworkThrow == [kind |-> "throw", response |-> NoResponse]
FetchResults(bodies) ==
    {NetworkThrow}
        \cup {[kind |-> "response", response |-> [status |-> s, body |-> b]] :
                s \in {x \in Statuses : ResponseOk([status |-> x])}, b \in bodies}
        \cup {[kind |-> "response", response |-> [status |-> s, body |-> ErrorBody]] :
                s \in {x \in Statuses : ~ResponseOk([status |-> x])}}

(***************************************************************************)
(* fetchWithRetry                                                          *)
(***************************************************************************)
RECURSIVE Pow(_, _)
Pow(b, e) == IF e = 0 THEN 1 ELSE b * Pow(b, e - 1)

\* A backoff that does not grow with the attempt.
BackoffFlat(baseDelay, i) == [num |-> baseDelay, den |-> 1]

\* baseDelay * Math.pow(1.5, i), as the exact fraction num / den.
Backoff(baseDelay, i) == [num |-> baseDelay * Pow(3, i), den |-> Pow(2, i)]

\* backoff + jitter, with the backoff it was computed from.
Delay(baseDelay, i, jitter) ==
    LET b == Backoff(baseDelay, i)
    IN  [backoff |-> b, jitter |-> jitter,
         delay |-> [num |-> b.num + jitter * b.den, den |-> b.den]]

RatLess(a, b) == a.num * b.den < b.num * a.den

\* The call's locals at its first fetch(): for (let i = 0; ...) await fetch(...).
\* With retries <= 0 the loop body never runs and the final throw is reached.
FwrStart(retries, baseDelay) ==
    [retries |-> retries, baseDelay |-> baseDelay, i |-> 0,
     pc |-> IF 0 < retries THEN "fetching" ELSE "thrown",
     lastError |-> IF 0 < retries THEN NoError
                   ELSE [kind |-> "exhausted", status |-> 0, page |-> 0],
     response |-> NoResponse]

FwrIdle ==
    [retries |-> 0, baseDelay |-> 0, i |-> 0, pc |-> "idle",
     lastError |-> NoError, response |-> NoResponse]

\* Only 5xx is retried: a 429 is returned like any other client error.
RetryableStatusNo429(status) == status >= 500

\* Statuses the try block throws on, to be caught and retried.
RetryableStatus(status) == status = 429 \/ status >= 500

\* The error the catch block sees for one fetch() result.
AttemptError(res) ==
    IF res.kind = "throw"
        THEN [kind |-> "network", status |-> 0, page |-> 0]
        ELSE [kind |-> "server", status |-> res.response.status, page |-> 0]

\* Every response that is not OK is thrown and retried, a 404 too.
AttemptFailsUnlessOk(res) == res.kind = "throw" \/ ~ResponseOk(res.response)

\* Whether the attempt ends in the catch block.
AttemptFails(res) ==
    res.kind = "throw"
        \/ (~ResponseOk(res.response) /\ RetryableStatus(res.response.status))

\* One attempt too many: i === retries.
IsLastAttemptOffByOne(st) == st.i = st.retries

\* const isLastAttempt = i === retries - 1
IsLastAttempt(st) == st.i = st.retries - 1

\* The loop body from the resolution of await fetch() to the next await, the
\* return or the final throw.
FwrStep(st, res) ==
    IF ~AttemptFails(res)
        THEN [st EXCEPT !.pc = "returned", !.response = res.response]
        ELSE IF ~IsLastAttempt(st)
            THEN [st EXCEPT !.pc = "sleeping", !.lastError = AttemptError(res)]
            ELSE [st EXCEPT !.pc = "thrown", !.lastError = AttemptError(res),
                            !.i = st.i + 1]

\* The timer of the backoff sleep fires: i++ and the next await fetch().
FwrWake(st) == [st EXCEPT !.pc = "fetching", !.i = st.i + 1]

\* The number of fetch() calls the call has made so far.
FwrRequests(st) ==
    IF st.pc \in {"fetching", "sleeping", "returned"} THEN st.i + 1 ELSE st.i

(***************************************************************************)
(* fetchSpaces and fetchTeamTasks                                          *)
(***************************************************************************)
\* The spaces of the team, as the upstream lists them.
ServerSpaces == <<1, 2>>

\* The n tasks the upstream serves on page p, by identifier.
ServerPage(p, n) == [k \in 1..n |-> p * PAGE_SIZE + k]

\* How a fetchWithRetry call ended: it returned a response or threw lastError.
NotEnded == [how |-> "none", response |-> NoResponse, error |-> NoError]
Ended(st) ==
    [how |-> st.pc, response |-> st.response,
     error |-> IF st.pc = "thrown" THEN st.lastError ELSE NoError]

Pending == [kind |-> "pending", error |-> NoError, value |-> <<>>]
Returned(value) == [kind |-> "return", error |-> NoError, value |-> value]
Threw(error) == [kind |-> "throw", error |-> error, value |-> <<>>]

\* fetchSpaces once fetchWithRetry has returned or thrown: a non-OK response and
\* an unparsable body throw, and the catch block rethrows.
SpacesOutcome(st) ==
    IF st.pc = "thrown" THEN Threw(st.lastError)
    ELSE IF ~ResponseOk(st.response)
        THEN Threw([kind |-> "api", status |-> st.response.status, page |-> 0])
    ELSE IF st.response.body.kind = "garbage"
        THEN Threw([kind |-> "json", status |-> 0, page |-> 0])
    ELSE IF st.response.body.kind = "spaces" THEN Returned(ServerSpaces)
    ELSE Returned(<<>>)

\* The error the inner try block of fetchTeamTasks throws for one page, or
\* NoError: fetchWithRetry threw, the response is not OK, or response.json()
\* threw on an HTML page or on other text.
PageFailure(st, p) ==
    IF st.pc = "thrown" THEN st.lastError
    ELSE IF ~ResponseOk(st.response)
        THEN [kind |-> "api", status |-> st.response.status, page |-> p]
    ELSE IF st.response.body.kind = "html"
        THEN [kind |-> "html", status |-> 0, page |-> 0]
    ELSE IF st.response.body.kind = "garbage"
        THEN [kind |-> "json", status |-> 0, page |-> 0]
    ELSE NoError

\* No graceful degradation: every page error is rethrown.
HasPartialTasksNever(tasks) == FALSE

\* if (allTasks.length > 0): graceful degradation applies.
HasPartialTasks(tasks) == Len(tasks) > 0

\* if (data.tasks.length < 100): the last page.
IsLastPage(n) == n < PAGE_SIZE

\* The loop without its safety cap.
LoopContinuesNoCap(more, p) == more

\* while (hasMore && page < MAX_PAGES)
LoopContinues(more, p) == more /\ p < MAX_PAGES

\* The body of the while loop after fetchWithRetry has returned or thrown: the
\* new page, hasMore, allTasks, the pageError caught (or NoError) and whether
\* the catch block rethrew it.
PageStep(st, p, tasks) ==
    LET err == PageFailure(st, p)
        body == st.response.body
    IN  IF err # NoError
            THEN [page |-> p, hasMore |-> IF HasPartialTasks(tasks) THEN FALSE ELSE TRUE,
                  allTasks |-> tasks, pageError |-> err,
                  rethrown |-> ~HasPartialTasks(tasks)]
        ELSE IF body.kind = "tasks"
            THEN [page |-> IF IsLastPage(body.n) THEN p ELSE p + 1,
                  hasMore |-> ~IsLastPage(body.n),
                  allTasks |-> tasks \o ServerPage(p, body.n),
                  pageError |-> NoError, rethrown |-> FALSE]
        ELSE [page |-> p, hasMore |-> FALSE, allTasks |-> tasks,
              pageError |-> NoError, rethrown |-> FALSE]

\* fetchSpaces is called: fetchWithRetry with the default budget.
StartFetchSpaces ==
    /\ call = "none"
    /\ call' = "spaces"
    /\ fwr' = FwrStart(DefaultRetries, DefaultBaseDelay)
    /\ sleeps' = <<>>
    /\ UNCHANGED <<page, hasMore, allTasks, pageError, outcome, lastResult, ended,
                   bodyRead>>
    /\ UNCHANGED notFetchVars

\* fetchTeamTasks is called: the loop is entered and page 0 requested.
StartFetchTeamTasks ==
    /\ call = "none"
    /\ call' = "tasks"
    /\ page' = 0
    /\ hasMore' = TRUE
    /\ allTasks' = <<>>
    /\ fwr' = FwrStart(TaskRetries, TaskBaseDelay)
    /\ sleeps' = <<>>
    /\ UNCHANGED <<pageError, outcome, lastResult, ended, bodyRead>>
    /\ UNCHANGED notFetchVars

\* An attempt of the space listing fails and is not the last: the call sleeps
\* for the backoff delay.
SpacesAttemptRetried ==
    /\ call = "spaces"
    /\ fwr.pc = "fetching"
    /\ \E res \in FetchResults(SpaceBodies), jitter \in JitterChoices :
        /\ FwrStep(fwr, res).pc = "sleeping"
        /\ fwr' = FwrStep(fwr, res)
        /\ sleeps' = Append(sleeps, Delay(fwr.baseDelay, fwr.i, jitter))
        /\ lastResult' = res
    /\ UNCHANGED <<call, page, hasMore, allTasks, pageError, outcome, ended,
                   bodyRead>>
    /\ UNCHANGED notFetchVars

\* The attempt that ends fetchWithRetry for the space listing.  When it throws,
\* the catch block of fetchSpaces rethrows at once; when it returns a response,
\* fetchSpaces awaits the body: response.text() or response.json().
SpacesFetchSettles ==
    /\ call = "spaces"
    /\ fwr.pc = "fetching"
    /\ \E res \in FetchResults(SpaceBodies) :
        LET st == FwrStep(fwr, res)
        IN  /\ st.pc \in {"returned", "thrown"}
            /\ fwr' = st
            /\ lastResult' = res
            /\ ended' = Ended(st)
            /\ IF st.pc = "thrown"
                    THEN /\ outcome' = SpacesOutcome(st)
                         /\ bodyRead' = "none"
                    ELSE /\ outcome' = outcome
                         /\ bodyRead' = BodyRead(st.response)
    /\ UNCHANGED <<call, sleeps, page, hasMore, allTasks, pageError>>
    /\ UNCHANGED notFetchVars

\* The body of the space listing has been read: fetchSpaces throws the API
\* error or the error of response.json(), or returns the spaces.
SpacesBodyRead ==
    /\ call = "spaces"
    /\ bodyRead \in {"json", "text"}
    /\ outcome' = SpacesOutcome(fwr)
    /\ bodyRead' = "none"
    /\ UNCHANGED <<call, fwr, sleeps, page, hasMore, allTasks, pageError,
                   lastResult, ended>>
    /\ UNCHANGED notFetchVars

\* An attempt of a task page fails and is not the last: the call sleeps for the
\* backoff delay.
TasksAttemptRetried ==
    /\ call = "tasks"
    /\ fwr.pc = "fetching"
    /\ \E res \in FetchResults(TaskBodies), jitter \in JitterChoices :
        /\ FwrStep(fwr, res).pc = "sleeping"
        /\ fwr' = FwrStep(fwr, res)
        /\ sleeps' = Append(sleeps, Delay(fwr.baseDelay, fwr.i, jitter))
        /\ lastResult' = res
    /\ UNCHANGED <<call, page, hasMore, allTasks, pageError, outcome, ended,
                   bodyRead>>
    /\ UNCHANGED notFetchVars

\* The loop body of fetchTeamTasks runs to its end for the page whose
\* fetchWithRetry call ended as st: then the catch block rethrows, the next
\* page is requested, or fetchTeamTasks returns allTasks.
PageEnds(st) ==
    LET nx == PageStep(st, page, allTasks)
    IN  /\ page' = nx.page
        /\ hasMore' = nx.hasMore
        /\ allTasks' = nx.allTasks
        /\ pageError' = nx.pageError
        /\ bodyRead' = "none"
        /\ IF nx.rethrown
                THEN /\ outcome' = Threw(nx.pageError)
                     /\ fwr' = st
                     /\ sleeps' = sleeps
            ELSE IF LoopContinues(nx.hasMore, nx.page)
                THEN /\ outcome' = outcome
                     /\ fwr' = FwrStart(TaskRetries, TaskBaseDelay)
                     /\ sleeps' = <<>>
            ELSE /\ outcome' = Returned(nx.allTasks)
                 /\ fwr' = st
                 /\ sleeps' = sleeps

\* The attempt that ends fetchWithRetry for a task page.  When it throws, the
\* catch block takes the error at once and the loop body ends; when it returns
\* a response, the loop body awaits the body: response.text() or
\* response.json().
TasksPageSettles ==
    /\ call = "tasks"
    /\ fwr.pc = "fetching"
    /\ \E res \in FetchResults(TaskBodies) :
        LET st == FwrStep(fwr, res)
        IN  /\ st.pc \in {"returned", "thrown"}
            /\ lastResult' = res
            /\ ended' = Ended(st)
            /\ IF st.pc = "thrown"
                    THEN PageEnds(st)
                    ELSE /\ fwr' = st
                         /\ bodyRead' = BodyRead(st.response)
                         /\ UNCHANGED <<sleeps, page, hasMore, allTasks,
                                        pageError, outcome>>
    /\ UNCHANGED call
    /\ UNCHANGED notFetchVars

\* response.json() throws on a body that is not JSON.
JsonThrows(response) == response.body.kind \in {"html", "garbage"}

\* The body of a task page has been read.  The error text of a response that
\* is not OK and the parsed JSON end the loop body; when response.json()
\* throws, the catch block awaits clone.text().
TasksBodyRead ==
    /\ call = "tasks"
    /\ bodyRead \in {"json", "text"}
    /\ IF bodyRead = "json" /\ JsonThrows(fwr.response)
            THEN /\ bodyRead' = "clone"
                 /\ UNCHANGED <<fwr, sleeps, page, hasMore, allTasks, pageError,
                                outcome>>
            ELSE PageEnds(fwr)
    /\ UNCHANGED <<call, lastResult, ended>>
    /\ UNCHANGED notFetchVars

\* The text of the clone has been read: the HTML error or the error of
\* response.json() is thrown and the loop body ends.
TasksCloneRead ==
    /\ call = "tasks"
    /\ bodyRead = "clone"
    /\ PageEnds(fwr)
    /\ UNCHANGED <<call, lastResult, ended>>
    /\ UNCHANGED notFetchVars

\* The timer of a backoff sleep fires and the next attempt is made.
BackoffTimerFires ==
    /\ call \in {"spaces", "tasks", "comments"}
    /\ fwr.pc = "sleeping"
    /\ fwr' = FwrWake(fwr)
    /\ UNCHANGED <<call, sleeps, page, hasMore, allTasks, pageError, outcome,
                   lastResult, ended, bodyRead>>
    /\ UNCHANGED notFetchVars


(***************************************************************************)
(* Objects of the enrichment: strings that hold timestamps, comments,      *)
(* tasks and projects.  heap.projs and heap.tasks hold the objects; an     *)
(* object's address is its index.  Arrays are values: the code builds      *)
(* every array it writes to afresh ([] and map).                           *)
(***************************************************************************)
\* The call time, Date.now(), and the look-back of 30 days, in seconds.
Now == 1700 * 1000000
ThirtyDays == 30 * 24 * 60 * 60

\* A string of decimal digits that reads as n, and a string that does not
\* read as a number.
DateStr(n) == [numeric |-> TRUE, value |-> n]
NotADate == [numeric |-> FALSE, value |-> 0]

\* parseInt: the number a string reads as, or NaN.
NaN == [nan |-> TRUE, value |-> 0]
ParseInt(str) == IF str.numeric THEN [nan |-> FALSE, value |-> str.value] ELSE NaN

\* A comment as the API serves it carries no task_id and no task_name.
Unstamped == 0
RawComment(id, date) ==
    [id |-> id, date |-> DateStr(date), task_id |-> Unstamped, task_name |-> Unstamped]
NoComment ==
    [id |-> 0, date |-> NotADate, task_id |-> Unstamped, task_name |-> Unstamped]

\* The comments the upstream holds for a task: none, one or two, oldest first.
ServerComments(taskId) ==
    IF taskId % 3 = 0 THEN <<>>
    ELSE IF taskId % 3 = 1 THEN <<RawComment(10 * taskId + 1, 1000 + 10 * taskId)>>
    ELSE <<RawComment(10 * taskId + 1, 1000 + 10 * taskId),
           RawComment(10 * taskId + 2, 1005 + 10 * taskId)>>

\* The bodies of a comment response.
CommentBodies == {[kind |-> k, n |-> 0] : k \in {"comments", "noarray", "garbage"}}

\* What one fetch() of a comment request can do: it throws, or the comment
\* endpoint answers with any of the statuses.
CommentFetchResults == FetchResults(CommentBodies)

\* An upstream whose only fault is a dropped connection.
DroppingUpstream ==
    {r \in CommentFetchResults :
        r.kind = "throw" \/ (r.response.status = 200 /\ r.response.body.kind = "comments")}

\* What a fetch() of a comment request can do against the upstream named.
UpstreamResults(name) ==
    IF name = "faulty" THEN CommentFetchResults
    ELSE IF name = "dropping" THEN DroppingUpstream
    ELSE {}

(***************************************************************************)
(* fetchTaskComments                                                       *)
(***************************************************************************)
Resolved(comments) == [status |-> "resolved", comments |-> comments]
Rejected == [status |-> "rejected", comments |-> <<>>]

\* fetchTaskComments without its catch block.
TaskCommentsResultNoCatch(st, taskId) ==
    IF st.pc = "thrown" THEN Rejected
    ELSE IF ~ResponseOk(st.response) THEN Resolved(<<>>)
    ELSE IF st.response.body.kind = "garbage" THEN Rejected
    ELSE IF st.response.body.kind = "comments" THEN Resolved(ServerComments(taskId))
    ELSE Resolved(<<>>)

\* fetchTaskComments once fetchWithRetry has returned or thrown: the catch
\* block turns a throw of fetchWithRetry or of response.json() into [].
TaskCommentsResult(st, taskId) ==
    IF st.pc = "thrown" THEN Resolved(<<>>)
    ELSE IF ~ResponseOk(st.response) THEN Resolved(<<>>)
    ELSE IF st.response.body.kind = "garbage" THEN Resolved(<<>>)
    ELSE IF st.response.body.kind = "comments" THEN Resolved(ServerComments(taskId))
    ELSE Resolved(<<>>)

\* fetchTaskComments(taskId) is called: fetchWithRetry with the comment budget.
StartFetchTaskComments ==
    /\ call = "none"
    /\ call' = "comments"
    /\ fwr' = FwrStart(CommentRetries, CommentBaseDelay)
    /\ sleeps' = <<>>
    /\ UNCHANGED <<page, hasMore, allTasks, pageError, outcome, lastResult, ended,
                   bodyRead>>
    /\ UNCHANGED notFetchVars

\* An attempt of the comment request fails and is not the last: the call
\* sleeps for the backoff delay.
TaskCommentsAttemptRetried ==
    /\ call = "comments"
    /\ fwr.pc = "fetching"
    /\ \E res \in CommentFetchResults, jitter \in JitterChoices :
        /\ FwrStep(fwr, res).pc = "sleeping"
        /\ fwr' = FwrStep(fwr, res)
        /\ sleeps' = Append(sleeps, Delay(fwr.baseDelay, fwr.i, jitter))
        /\ lastResult' = res
    /\ UNCHANGED <<call, page, hasMore, allTasks, pageError, outcome, ended,
                   bodyRead>>
    /\ UNCHANGED notFetchVars

\* The attempt that ends fetchWithRetry for the comment request.  When it
\* throws or returns a response that is not OK, fetchTaskComments returns [] at
\* once; when it returns an OK response, fetchTaskComments awaits
\* response.json().
TaskCommentsFetchSettles ==
    /\ call = "comments"
    /\ fwr.pc = "fetching"
    /\ \E res \in CommentFetchResults :
        LET st == FwrStep(fwr, res)
        IN  /\ st.pc \in {"returned", "thrown"}
            /\ fwr' = st
            /\ lastResult' = res
            /\ ended' = Ended(st)
            /\ IF st.pc = "returned" /\ ResponseOk(st.response)
                    THEN /\ outcome' = outcome
                         /\ bodyRead' = "json"
                    ELSE /\ outcome' = Returned(<<>>)
                         /\ bodyRead' = "none"
    /\ UNCHANGED <<call, sleeps, page, hasMore, allTasks, pageError>>
    /\ UNCHANGED notFetchVars

\* The body of the comment response has been read: fetchTaskComments returns
\* the comments of the task, or [].  The task is one for which the upstream
\* holds one comment, two, or none.
TaskCommentsBodyRead ==
    /\ call = "comments"
    /\ bodyRead = "json"
    /\ \E taskId \in 1..3 :
        outcome' = Returned(TaskCommentsResult(fwr, taskId).comments)
    /\ bodyRead' = "none"
    /\ UNCHANGED <<call, fwr, sleeps, page, hasMore, allTasks, pageError,
                   lastResult, ended>>
    /\ UNCHANGED notFetchVars

(***************************************************************************)
(* enrichProjectsWithComments                                              *)
(***************************************************************************)
Min(a, b) == IF a < b THEN a ELSE b

\* parseInt(t.date_updated) > thirtyDaysAgo; a comparison with NaN is false.
IsCandidate(task, tda) ==
    LET updated == ParseInt(task.date_updated)
    IN  ~updated.nan /\ updated.value > tda

\* The candidates of one project, in task order: what candidates.forEach
\* pushes.  projectIndex counts from 1 here and from 0 in the code.
RECURSIVE ProjectCandidates(_, _, _, _)
ProjectCandidates(h, taskAddrs, idx, tda) ==
    IF taskAddrs = <<>> THEN <<>>
    ELSE LET t == h.tasks[Head(taskAddrs)]
             rest == ProjectCandidates(h, Tail(taskAddrs), idx, tda)
         IN  IF IsCandidate(t, tda)
                THEN <<[taskId |-> t.id, projectIndex |-> idx, taskName |-> t.name]>>
                        \o rest
                ELSE rest

\* projects.forEach((project, idx) => ...): the candidates of the projects from
\* index idx on.
RECURSIVE SelectCandidates(_, _, _, _)
SelectCandidates(h, ps, idx, tda) ==
    IF idx > Len(ps) THEN <<>>
    ELSE ProjectCandidates(h, h.projs[ps[idx]].tasks, idx, tda)
            \o SelectCandidates(h, ps, idx + 1, tda)

\* A slice one element too long.
SliceEndOneMore(i, n) == Min(i + chunkSize + 1, n)

\* tasksToFetch.slice(i, i + chunkSize) ends before this index (from 0).
SliceEnd(i, n) == Min(i + chunkSize, n)

\* chunk.map(item => fetchTaskComments(item.taskId)...): every call runs up to
\* its first await fetch().
IssueChunk(ttf, i) ==
    [j \in 1..(SliceEnd(i, Len(ttf)) - i) |->
        [item |-> ttf[i + j],
         fwr |-> FwrStart(CommentRetries, CommentBaseDelay),
         status |-> "pending", comments |-> <<>>, why |-> "none"]]

\* const chunkResults = await Promise.all(chunkPromises): {...item, comments}
\* in chunk order.
ChunkResults(fl) ==
    [j \in 1..Len(fl) |->
        [taskId |-> fl[j].item.taskId, projectIndex |-> fl[j].item.projectIndex,
         taskName |-> fl[j].item.taskName, comments |-> fl[j].comments]]

\* The tasks are not copied: tasks: p.tasks.
CopyTasksShared(h, taskAddrs) == [heap |-> h, addrs |-> taskAddrs]

\* p.tasks.map(t => ({...t, comments: []})): fresh task objects.
CopyTasks(h, taskAddrs) ==
    [heap |-> [h EXCEPT !.tasks = h.tasks \o
                  [j \in 1..Len(taskAddrs) |->
                      [h.tasks[taskAddrs[j]] EXCEPT !.comments = <<>>]]],
     addrs |-> [j \in 1..Len(taskAddrs) |-> Len(h.tasks) + j]]

\* projects.map(p => ({...p, recentComments: [], tasks: ...})) from index idx
\* on: fresh project objects, with the addresses of the copies.
RECURSIVE CopyProjects(_, _, _)
CopyProjects(h, ps, idx) ==
    IF idx > Len(ps) THEN [heap |-> h, addrs |-> <<>>]
    ELSE LET p == h.projs[ps[idx]]
             ct == CopyTasks(h, p.tasks)
             h1 == [ct.heap EXCEPT !.projs = Append(ct.heap.projs,
                        [p EXCEPT !.recentComments = <<>>, !.tasks = ct.addrs])]
             rest == CopyProjects(h1, ps, idx + 1)
         IN  [heap |-> rest.heap, addrs |-> <<Len(h1.projs)>> \o rest.addrs]

\* project.tasks.find(t => t.id === res.taskId): the address of the first task
\* with that id, or 0.
RECURSIVE FindTask(_, _, _)
FindTask(h, taskAddrs, taskId) ==
    IF taskAddrs = <<>> THEN 0
    ELSE IF h.tasks[Head(taskAddrs)].id = taskId THEN Head(taskAddrs)
    ELSE FindTask(h, Tail(taskAddrs), taskId)

\* res.comments.map(c => ({...c, task_id: res.taskId, task_name: res.taskName}))
Contextualize(res) ==
    [j \in 1..Len(res.comments) |->
        [res.comments[j] EXCEPT !.task_id = res.taskId, !.task_name = res.taskName]]

\* The body of results.forEach for one result.
MergeResult(h, out, res) ==
    IF Len(res.comments) > 0
        THEN LET pa == out[res.projectIndex]
                 ta == FindTask(h, h.projs[pa].tasks, res.taskId)
             IN  IF ta # 0
                    THEN [h EXCEPT !.tasks[ta].comments = Contextualize(res),
                                   !.projs[pa].recentComments = @ \o Contextualize(res)]
                    ELSE h
        ELSE h

\* results.forEach(...) from result k on.
RECURSIVE MergeResults(_, _, _, _)
MergeResults(h, out, res, k) ==
    IF k > Len(res) THEN h
    ELSE MergeResults(MergeResult(h, out, res[k]), out, res, k + 1)

\* (a, b) => parseInt(b.date) - parseInt(a.date), by sign.  With a date that
\* does not read as a number the difference is NaN, which sort takes for +0.
CompareComments(a, b) ==
    LET da == ParseInt(a.date)
        db == ParseInt(b.date)
    IN  IF da.nan \/ db.nan THEN 0 ELSE db.value - da.value

\* The comparator is a consistent one on the comments: equality under it is
\* transitive.  It is not when a date that does not read as a number compares
\* equal to two dates that differ.
ConsistentComparator(cs) ==
    \/ \A k \in DOMAIN cs : ~ParseInt(cs[k].date).nan
    \/ \A k, m \in DOMAIN cs :
            (~ParseInt(cs[k].date).nan /\ ~ParseInt(cs[m].date).nan)
                => CompareComments(cs[k], cs[m]) = 0

\* One step of a stable sort under a consistent comparator: c goes before the
\* first element that the comparator orders after it.
RECURSIVE InsertComment(_, _)
InsertComment(sorted, c) ==
    IF sorted = <<>> THEN <<c>>
    ELSE IF CompareComments(Head(sorted), c) > 0 THEN <<c>> \o sorted
    ELSE <<Head(sorted)>> \o InsertComment(Tail(sorted), c)

\* The one order a stable sort under a consistent comparator leaves.
RECURSIVE StableSort(_)
StableSort(cs) ==
    IF cs = <<>> THEN <<>>
    ELSE InsertComment(StableSort(SubSeq(cs, 1, Len(cs) - 1)), cs[Len(cs)])

\* The arrangements of n places.
Permutation(n) == {f \in [1..n -> 1..n] : \A i, j \in 1..n : f[i] = f[j] => i = j}

\* Array.prototype.sort with that comparator: the orders it can leave the
\* array in.  The sort is stable; under a comparator that is not consistent the
\* order is implementation-defined, any arrangement of the elements.
SortComments(cs) ==
    IF ConsistentComparator(cs) THEN {StableSort(cs)}
    ELSE {[k \in 1..Len(cs) |-> cs[f[k]]] : f \in Permutation(Len(cs))}

\* enrichedProjects.forEach(p => { sort; latestComment }) from index k on: the
\* heaps it can leave.
RECURSIVE FinalSort(_, _, _)
FinalSort(h, out, k) ==
    IF k > Len(out) THEN {h}
    ELSE UNION {FinalSort([h EXCEPT !.projs[out[k]].recentComments = sorted,
                                    !.projs[out[k]].latestComment =
                                        IF Len(sorted) > 0 THEN sorted[1] ELSE @],
                          out, k + 1) :
                    sorted \in SortComments(h.projs[out[k]].recentComments)}

\* Steps 3 and 4: copy, merge, sort.  The heaps and the returned array the
\* call can end with.
Enrich(h, ps, res) ==
    LET cp == CopyProjects(h, ps, 1)
        merged == MergeResults(cp.heap, cp.addrs, res, 1)
    IN  {[heap |-> sorted, out |-> cp.addrs] : sorted \in FinalSort(merged, cp.addrs, 1)}

(***************************************************************************)
(* The inputs of the enrichment                                            *)
(***************************************************************************)
\* Bounds: projects of up to SmallTasks tasks in every variation against an
\* upstream with every fault, and one input of ManyTasks recently updated tasks,
\* which fills more than one chunk, against an upstream that drops connections.
SmallTasks == 3
ManyTasks == 7

\* Tasks 1 .. Split(n) belong to the first project, the others to the second.
Split(n) == (n + 1) \div 2

\* An input of n tasks in two projects (none in no project when n = 0).  Task
\* stale, if any, was last updated 30 days ago or earlier, or has an unreadable
\* date; task dup, if any, has the identifier of the task before it, which is a
\* task of the same project; with prior, the objects already carry comments of
\* an earlier enrichment.
Scenarios ==
    {[n |-> n, stale |-> st, staleKind |-> sk, dup |-> d, prior |-> pr,
      upstream |-> "faulty"] :
        n \in 0..SmallTasks, st \in 0..SmallTasks,
        sk \in {"older", "boundary", "unreadable"},
        d \in {0} \cup 2..SmallTasks, pr \in BOOLEAN}
    \cup {[n |-> ManyTasks, stale |-> 0, staleKind |-> "older", dup |-> 0,
           prior |-> FALSE, upstream |-> "dropping"]}

ValidScenario(sc) ==
    /\ sc.stale <= sc.n
    /\ sc.dup <= sc.n
    /\ sc.stale = 0 => sc.staleKind = "older"
    /\ sc.dup # 0 => ((sc.dup <= Split(sc.n)) <=> (sc.dup - 1 <= Split(sc.n)))
    /\ sc.n = 0 => ~sc.prior
    /\ sc.dup # 0 => (sc.staleKind = "older" /\ ~sc.prior)

\* A comment stamped by an earlier enrichment of task k.
OldComment(sc, k) ==
    [id |-> 900 + k, date |-> DateStr(500),
     task_id |-> (IF sc.dup = k THEN k - 1 ELSE k), task_name |-> 100 + k]

\* Task k of the input: identifier, name, date_updated and comments.
InputTask(sc, k) ==
    [id |-> IF sc.dup = k THEN k - 1 ELSE k,
     name |-> 100 + k,
     date_updated |->
        IF sc.stale # k
            THEN DateStr(IF k % 2 = 1 THEN Now - ThirtyDays + 1 ELSE Now - 60)
        ELSE IF sc.staleKind = "older" THEN DateStr(Now - ThirtyDays - 1)
        ELSE IF sc.staleKind = "boundary" THEN DateStr(Now - ThirtyDays)
        ELSE NotADate,
     comments |-> IF sc.prior THEN <<OldComment(sc, k)>> ELSE <<>>]

\* Project i of the input, with the addresses first .. last of its tasks.
InputProject(sc, i, first, last) ==
    [id |-> 10 + i, name |-> 20 + i,
     tasks |-> [j \in 1..(last - first + 1) |-> first + j - 1],
     recentComments |->
        IF sc.prior /\ first <= last THEN <<OldComment(sc, first)>> ELSE <<>>,
     latestComment |->
        IF sc.prior /\ first <= last THEN OldComment(sc, first) ELSE NoComment]

\* The caller's objects: task k at address k, the projects at 1 and 2.
InputHeap(sc) ==
    [tasks |-> [k \in 1..sc.n |-> InputTask(sc, k)],
     projs |-> IF sc.n = 0 THEN <<>>
               ELSE <<InputProject(sc, 1, 1, Split(sc.n)),
                      InputProject(sc, 2, Split(sc.n) + 1, sc.n)>>]

\* The caller's array of projects.
InputProjects(sc) == IF sc.n = 0 THEN <<>> ELSE <<1, 2>>

(***************************************************************************)
(* The steps of enrichProjectsWithComments                                 *)
(***************************************************************************)
\* The fetch() result is a 200 response whose body holds a comments array.
ServesComments(res) ==
    /\ res.kind = "response"
    /\ res.response.status = 200
    /\ res.response.body.kind = "comments"

AllResolved(fl) == \A j \in 1..Len(fl) : fl[j].status = "resolved"

\* The call: candidate selection, and then either the first chunk is issued or,
\* with no candidate, the call runs to its end.
EnrichCalled ==
    /\ epc = "called"
    /\ \E fin \in Enrich(heap, projects, <<>>) :
       LET tda == Now - ThirtyDays
           ttf == SelectCandidates(heap, projects, 1, tda)
       IN  /\ thirtyDaysAgo' = tda
           /\ tasksToFetch' = ttf
           /\ IF Len(ttf) > 0
                THEN /\ inflight' = IssueChunk(ttf, 0)
                     /\ epc' = "fetching"
                     /\ UNCHANGED <<heap, enrichedProjects>>
                ELSE /\ inflight' = <<>>
                     /\ epc' = "done"
                     /\ heap' = fin.heap
                     /\ enrichedProjects' = fin.out
    /\ UNCHANGED <<callerHeap, projects, upstream, chunkStart, results>>
    /\ UNCHANGED notEnrichVars

\* An attempt of the comment fetch at position j of the chunk fails and is not
\* the last: the fetch sleeps for its backoff delay.
CommentAttemptRetried(j) ==
    /\ epc = "fetching"
    /\ inflight[j].status = "pending"
    /\ inflight[j].fwr.pc = "fetching"
    /\ \E res \in UpstreamResults(upstream) :
        /\ FwrStep(inflight[j].fwr, res).pc = "sleeping"
        /\ inflight' = [inflight EXCEPT ![j].fwr = FwrStep(inflight[j].fwr, res)]
    /\ UNCHANGED <<heap, callerHeap, projects, upstream, thirtyDaysAgo, tasksToFetch,
                   chunkStart, results, enrichedProjects, epc>>
    /\ UNCHANGED notEnrichVars

\* The backoff timer of the comment fetch at position j fires.
CommentBackoffTimerFires(j) ==
    /\ epc = "fetching"
    /\ inflight[j].status = "pending"
    /\ inflight[j].fwr.pc = "sleeping"
    /\ inflight' = [inflight EXCEPT ![j].fwr = FwrWake(inflight[j].fwr)]
    /\ UNCHANGED <<heap, callerHeap, projects, upstream, thirtyDaysAgo, tasksToFetch,
                   chunkStart, results, enrichedProjects, epc>>
    /\ UNCHANGED notEnrichVars

\* fetchTaskComments at position j settles as got; why tells whether the
\* upstream served the comments.  A rejection would reject Promise.all and with
\* it the enrichment.
CommentFetchEnds(j, got, why) ==
    /\ inflight' = [inflight EXCEPT
            ![j].fwr = FwrIdle,
            ![j].status = got.status,
            ![j].comments = got.comments,
            ![j].why = why]
    /\ epc' = IF got.status = "rejected" THEN "thrown" ELSE epc

\* The attempt that ends fetchWithRetry for the comment fetch at position j.
\* When it throws or returns a response that is not OK, fetchTaskComments
\* settles at once; when it returns an OK response, fetchTaskComments awaits
\* response.json().
CommentFetchSettles(j) ==
    /\ epc = "fetching"
    /\ inflight[j].status = "pending"
    /\ inflight[j].fwr.pc = "fetching"
    /\ \E res \in UpstreamResults(upstream) :
        LET st == FwrStep(inflight[j].fwr, res)
        IN  /\ st.pc \in {"returned", "thrown"}
            /\ IF st.pc = "returned" /\ ResponseOk(st.response)
                    THEN /\ inflight' = [inflight EXCEPT ![j].fwr = st]
                         /\ epc' = epc
                    ELSE CommentFetchEnds(j,
                            TaskCommentsResult(st, inflight[j].item.taskId), "failed")
    /\ UNCHANGED <<heap, callerHeap, projects, upstream, thirtyDaysAgo, tasksToFetch,
                   chunkStart, results, enrichedProjects>>
    /\ UNCHANGED notEnrichVars

\* The body of the comment response at position j has been read:
\* fetchTaskComments settles.
CommentBodyRead(j) ==
    /\ epc = "fetching"
    /\ inflight[j].status = "pending"
    /\ inflight[j].fwr.pc = "returned"
    /\ CommentFetchEnds(j,
            TaskCommentsResult(inflight[j].fwr, inflight[j].item.taskId),
            IF ServesComments([kind |-> "response",
                               response |-> inflight[j].fwr.response])
                THEN "served" ELSE "failed")
    /\ UNCHANGED <<heap, callerHeap, projects, upstream, thirtyDaysAgo, tasksToFetch,
                   chunkStart, results, enrichedProjects>>
    /\ UNCHANGED notEnrichVars

\* Promise.all resolves: the chunk's results are appended, and then either the
\* pause before the next chunk starts or steps 3 and 4 run and the call returns.
ChunkCompletes ==
    /\ epc = "fetching"
    /\ AllResolved(inflight)
    /\ \E fin \in Enrich(heap, projects, results \o ChunkResults(inflight)) :
       LET res == results \o ChunkResults(inflight)
       IN  /\ results' = res
           /\ inflight' = <<>>
           /\ IF chunkStart + chunkSize < Len(tasksToFetch)
                THEN /\ epc' = "pausing"
                     /\ UNCHANGED <<heap, enrichedProjects>>
                ELSE /\ epc' = "done"
                     /\ heap' = fin.heap
                     /\ enrichedProjects' = fin.out
    /\ UNCHANGED <<callerHeap, projects, upstream, thirtyDaysAgo, tasksToFetch,
                   chunkStart>>
    /\ UNCHANGED notEnrichVars

\* The 50 ms pause between two chunks ends: i += chunkSize and the next chunk
\* is issued.
PauseTimerFires ==
    /\ epc = "pausing"
    /\ chunkStart' = chunkStart + chunkSize
    /\ inflight' = IssueChunk(tasksToFetch, chunkStart + chunkSize)
    /\ epc' = "fetching"
    /\ UNCHANGED <<heap, callerHeap, projects, upstream, thirtyDaysAgo, tasksToFetch,
                   results, enrichedProjects>>
    /\ UNCHANGED notEnrichVars


(***************************************************************************)
(* processTasksIntoProjects: tasks as the aggregation reads them           *)
(***************************************************************************)
\* const oneDay (a day, in the unit of Now) and const sevenDaysFromNow.
oneDay == 24 * 60 * 60
sevenDaysFromNow == Now + (7 * oneDay)

\* task.list, task.folder: a reference that is missing, or an id and a name.
NoRef == [present |-> FALSE, id |-> "", name |-> ""]
Ref(id, name) == [present |-> TRUE, id |-> id, name |-> name]

\* task.status: missing, or a categorical type and a status name.
NoStatus == [present |-> FALSE, type |-> "", status |-> <<>>]
Status(type, name) == [present |-> TRUE, type |-> type, status |-> name]

\* task.due_date: null, or a string.
NullDate == [isNull |-> TRUE, str |-> NotADate]
Due(str) == [isNull |-> FALSE, str |-> str]

\* An entry of the tasks array: null, or a task.
RawTask(list, folder, status, due) ==
    [isNull |-> FALSE, id |-> 0, list |-> list, folder |-> folder,
     space |-> "90", status |-> status, due_date |-> due]
NullTask == [isNull |-> TRUE, id |-> 0, list |-> NoRef, folder |-> NoRef,
             space |-> "", status |-> NoStatus, due_date |-> NullDate]

\* A status name is a string over the letters A-Z and a-z and the space: the
\* sequence of its characters.
UpperLetters == <<"A", "B", "C", "D", "E", "F", "G", "H", "I", "J", "K", "L", "M">>
                    \o <<"N", "O", "P", "Q", "R", "S", "T", "U", "V", "W", "X", "Y", "Z">>
LowerLetters == <<"a", "b", "c", "d", "e", "f", "g", "h", "i", "j", "k", "l", "m">>
                    \o <<"n", "o", "p", "q", "r", "s", "t", "u", "v", "w", "x", "y", "z">>

\* The status names the aggregation compares with, and names the upstream
\* reports.
LowerComplete == <<"c", "o", "m", "p", "l", "e", "t", "e">>
LowerClosed == <<"c", "l", "o", "s", "e", "d">>
TitleComplete == <<"C", "o", "m", "p", "l", "e", "t", "e">>
UpperComplete == <<"C", "O", "M", "P", "L", "E", "T", "E">>
UpperClosed == <<"C", "L", "O", "S", "E", "D">>
MixedClosed == <<"c", "L", "o", "S", "e", "D">>
TitleDone == <<"D", "o", "n", "e">>
LowerDone == <<"d", "o", "n", "e">>
InProgress == <<"I", "n", " ", "P", "r", "o", "g", "r", "e", "s", "s">>

\* toLowerCase of one character: an upper-case letter becomes its lower-case
\* letter, every other character stays.
LowerChar(c) ==
    IF \E i \in DOMAIN UpperLetters : UpperLetters[i] = c
        THEN LowerLetters[CHOOSE i \in DOMAIN UpperLetters : UpperLetters[i] = c]
        ELSE c

\* String.prototype.toLowerCase.
ToLowerCase(s) == [k \in DOMAIN s |-> LowerChar(s[k])]

\* Closed by the categorical type alone.
IsClosedTypeOnly(task) == task.status.present /\ task.status.type = "closed"

\* const isClosed.
IsClosed(task) ==
    /\ task.status.present
    /\ \/ task.status.type = "closed"
       \/ ToLowerCase(task.status.status) = LowerComplete
       \/ ToLowerCase(task.status.status) = LowerClosed

\* const dueDate = task.due_date ? parseInt(task.due_date, 10) : null, and
\* whether it is truthy (null, NaN and 0 are not).
NullNumber == [isNull |-> TRUE, nan |-> FALSE, value |-> 0]
DueDate(task) ==
    IF task.due_date.isNull THEN NullNumber
    ELSE LET n == ParseInt(task.due_date.str)
         IN  [isNull |-> FALSE, nan |-> n.nan, value |-> n.value]
Truthy(n) == ~n.isNull /\ ~n.nan /\ n.value # 0

\* dueDate && dueDate < now
IsOverdue(task) == Truthy(DueDate(task)) /\ DueDate(task).value < Now

\* Due before the end of the window, however long ago.
IsDueBeforeWindowEnds(task) ==
    /\ Truthy(DueDate(task))
    /\ DueDate(task).value <= sevenDaysFromNow

\* dueDate && dueDate >= now && dueDate <= sevenDaysFromNow
IsDueNext7Days(task) ==
    /\ Truthy(DueDate(task))
    /\ DueDate(task).value >= Now
    /\ DueDate(task).value <= sevenDaysFromNow

\* Only a null entry is skipped.
IsSkippedNullOnly(task) == task.isNull

\* if (!task || !task.list) return
IsSkipped(task) == task.isNull \/ ~task.list.present

\* task.folder && task.folder.id
HasFolder(task) == task.folder.present /\ task.folder.id # ""

\* A group name: a name, with " (List)" appended for a loose list.
ListSuffix == " (List)"
GroupNameOf(base, suffix) == [base |-> base, suffix |-> suffix]

\* let groupId, groupName, folderName, after the if.
GroupId(task) == IF HasFolder(task) THEN task.folder.id ELSE task.list.id
GroupName(task) ==
    IF HasFolder(task) THEN GroupNameOf(task.folder.name, "")
    ELSE GroupNameOf(task.list.name, ListSuffix)
FolderName(task) == IF HasFolder(task) THEN task.folder.name ELSE "No Folder"

\* The statistics block of a new project.
ZeroStats == [totalTasks |-> 0, openTasks |-> 0, completedTasks |-> 0,
              overdueTasks |-> 0, dueNext7Days |-> 0, percentComplete |-> 0]

\* projectsMap.set(groupId, {...}): the project a task creates.
NewProject(task) ==
    [id |-> GroupId(task), name |-> GroupName(task), folderName |-> FolderName(task),
     spaceName |-> IF task.space # "" THEN task.space ELSE "Unknown Space",
     tasks |-> <<>>, stats |-> ZeroStats, riskLevel |-> "Low",
     recentComments |-> <<>>]

\* The "Calc Stats" part of the loop body: the statistics after one more task.
CountTask(stats, task) ==
    LET closed == IsClosed(task)
    IN  [stats EXCEPT
            !.totalTasks = @ + 1,
            !.completedTasks = IF closed THEN @ + 1 ELSE @,
            !.openTasks = IF closed THEN @ ELSE @ + 1,
            !.overdueTasks = IF ~closed /\ IsOverdue(task) THEN @ + 1 ELSE @,
            !.dueNext7Days = IF ~closed /\ IsDueNext7Days(task) THEN @ + 1 ELSE @]

\* A lookup that sees the newest entry only.
MapIndexNewestOnly(map, key) ==
    IF map # <<>> /\ map[Len(map)].id = key THEN Len(map) ELSE 0

\* projectsMap as the sequence of its values in insertion order; the index of
\* the entry under a key, or 0.
MapIndex(map, key) ==
    IF \E i \in DOMAIN map : map[i].id = key
    THEN CHOOSE i \in DOMAIN map : map[i].id = key
    ELSE 0

\* The body of tasks.forEach for one task.
AddTask(map, task) ==
    IF IsSkipped(task) THEN map
    ELSE LET withGroup == IF MapIndex(map, GroupId(task)) = 0
                          THEN Append(map, NewProject(task))
                          ELSE map
             i == MapIndex(withGroup, GroupId(task))
         IN  [withGroup EXCEPT
                 ![i].tasks = Append(@, task),
                 ![i].stats = CountTask(@, task)]

\* tasks.forEach(...) from task k on: the body runs for task k before the
\* next task is taken, and it never removes an entry of the map.
RECURSIVE GroupTasks(_, _, _)
GroupTasks(map, tasks, k) ==
    IF k > Len(tasks) THEN map
    ELSE LET next == AddTask(map, tasks[k])
         IN  IF Len(next) >= Len(map) THEN GroupTasks(next, tasks, k + 1) ELSE next

\* A Number is an IEEE 754 double: SignificantBits bits, most significant
\* first, and the power of two that scales them.  Its value is the integer the
\* bits read as, times 2^exp.
SignificantBits == 53
Double(bits, exp) == [bits |-> bits, exp |-> exp]

\* The sequence with these elements, element by element.
Elements(seq) == SubSeq(seq, 1, Len(seq))
Zero == Double(Elements([k \in 1..SignificantBits |-> 0]), 0)

\* The integer that a few bits read as.
RECURSIVE BitsValue(_)
BitsValue(bits) ==
    IF bits = <<>> THEN 0
    ELSE 2 * BitsValue(SubSeq(bits, 1, Len(bits) - 1)) + bits[Len(bits)]

\* The bits plus one, in as many bits (all ones become all zeros): a bit
\* flips when every bit after it is 1.
Increment(bits) ==
    Elements([k \in 1..Len(bits) |->
        IF \A j \in (k + 1)..Len(bits) : bits[j] = 1 THEN 1 - bits[k] ELSE bits[k]])

\* The double nearest to an exact result, a tie going to the even one.  The
\* exact result is the bits times 2^exp, and a little more when inexact.
RoundToNearestEven(bits, exp, inexact) ==
    IF Len(bits) <= SignificantBits THEN Double(bits, exp)
    ELSE LET kept == SubSeq(bits, 1, SignificantBits)
             dropped == Len(bits) - SignificantBits
             half == bits[SignificantBits + 1] = 1
             more == inexact \/ \E k \in (SignificantBits + 2)..Len(bits) : bits[k] = 1
             up == half /\ (more \/ kept[SignificantBits] = 1)
         IN  IF ~up THEN Double(kept, exp + dropped)
             ELSE IF Increment(kept)[1] = 1
                 THEN Double(Increment(kept), exp + dropped)
             ELSE Double(<<1>> \o SubSeq(Increment(kept), 1, SignificantBits - 1),
                         exp + dropped + 1)

\* The least e with t <= c * 2^e, for 0 < c <= t.
RECURSIVE Normalize(_, _)
Normalize(c, t) == IF c >= t THEN 0 ELSE 1 + Normalize(2 * c, t)

\* 2^n modulo t, by squaring.
RECURSIVE PowerOfTwoMod(_, _)
PowerOfTwoMod(n, t) ==
    IF n = 0 THEN 1 % t
    ELSE LET h == PowerOfTwoMod(n \div 2, t)
         IN  (((h * h) % t) * (IF n % 2 = 1 THEN 2 ELSE 1)) % t

\* The remainder that long division of c by t has left after n binary places.
Remainder(c, t, n) == (c * PowerOfTwoMod(n, t)) % t

\* c / t in doubles, for integers 0 <= c <= t and 0 < t: the leading 1 and
\* SignificantBits more quotient bits of long division, rounded.
Divide(c, t) ==
    IF c = 0 THEN Zero
    ELSE LET e == Normalize(c, t)
             quotient == Elements([k \in 1..(SignificantBits + 1) |->
                            IF k = 1 THEN 1
                            ELSE (2 * Remainder(c, t, e + k - 2)) \div t])
         IN  RoundToNearestEven(quotient, (0 - e) - SignificantBits,
                                Remainder(c, t, e + SignificantBits) # 0)

\* Whole numbers of any size in digits of DigitBits bits, the least
\* significant digit first.
DigitBits == 11
DigitBase == Pow(2, DigitBits)

\* The digits of the number that the bits read as.
Digits(bits) ==
    LET n == (Len(bits) + DigitBits - 1) \div DigitBits
        bit(j) == IF j < Len(bits) THEN bits[Len(bits) - j] ELSE 0
    IN  Elements([i \in 1..n |->
            BitsValue(Elements([k \in 1..DigitBits |-> bit((i * DigitBits) - k)]))])

\* The bits of the number that the digits read as, from its leading 1 on.
BitsOf(digits) ==
    LET n == Len(digits) * DigitBits
        bit(j) == (digits[(j \div DigitBits) + 1] \div Pow(2, j % DigitBits)) % 2
        top == CHOOSE j \in 0..(n - 1) :
                    bit(j) = 1 /\ \A i \in (j + 1)..(n - 1) : bit(i) = 0
    IN  Elements([k \in 1..(top + 1) |-> bit(top + 1 - k)])

\* The digits times a small integer, plus carry.
RECURSIVE TimesSmall(_, _, _)
TimesSmall(digits, m, carry) ==
    IF digits = <<>> THEN <<carry>>
    ELSE <<((Head(digits) * m) + carry) % DigitBase>>
            \o TimesSmall(Tail(digits), m, ((Head(digits) * m) + carry) \div DigitBase)

\* d * m in doubles, for a small integer m > 0.
Times(d, m) ==
    IF d = Zero THEN Zero
    ELSE RoundToNearestEven(BitsOf(TimesSmall(Digits(d.bits), m, 0)), d.exp, FALSE)

\* Math.floor in place of Math.round.
MathFloor(d) ==
    IF d.exp >= 0 THEN BitsValue(d.bits) * Pow(2, d.exp)
    ELSE IF (0 - d.exp) > SignificantBits THEN 0
    ELSE BitsValue(SubSeq(d.bits, 1, SignificantBits + d.exp))

\* Math.round of a double that is not negative: its whole part, and one more
\* when the fraction is a half or above.
MathRound(d) ==
    IF d.exp >= 0 THEN BitsValue(d.bits) * Pow(2, d.exp)
    ELSE IF (0 - d.exp) > SignificantBits THEN 0
    ELSE BitsValue(SubSeq(d.bits, 1, SignificantBits + d.exp))
            + d.bits[SignificantBits + d.exp + 1]

\* Math.round((completedTasks / totalTasks) * 100), or 0.
PercentComplete(stats) ==
    IF stats.totalTasks > 0
    THEN MathRound(Times(Divide(stats.completedTasks, stats.totalTasks), 100))
    ELSE 0

\* A risk level that does not look at the completion.
RiskLevelIgnoringCompletion(stats) ==
    IF stats.overdueTasks > 0 THEN "High"
    ELSE IF stats.dueNext7Days > 0 THEN "Medium"
    ELSE "Low"

\* The risk level of a project with these (final) statistics.
RiskLevel(stats) ==
    IF stats.overdueTasks > 0 THEN "High"
    ELSE IF stats.dueNext7Days > 0 /\ stats.percentComplete < 50 THEN "Medium"
    ELSE "Low"

\* The callback of .map: percentages and risk of one project.
Finalize(p) ==
    LET stats == [p.stats EXCEPT !.percentComplete = PercentComplete(p.stats)]
    IN  [p EXCEPT !.stats = stats, !.riskLevel = RiskLevel(stats)]

\* const riskScore.
riskScore(level) ==
    CASE level = "High" -> 3
      [] level = "Medium" -> 2
      [] level = "Low" -> 1

\* A comparator that orders by risk alone.
CompareProjectsByRiskOnly(a, b) == riskScore(b.riskLevel) - riskScore(a.riskLevel)

\* The comparator of the final sort.
CompareProjects(a, b) ==
    LET riskDiff == riskScore(b.riskLevel) - riskScore(a.riskLevel)
    IN  IF riskDiff # 0 THEN riskDiff
        ELSE b.stats.openTasks - a.stats.openTasks

\* One step of a stable sort: p goes before the first project that the
\* comparator orders after it.
RECURSIVE InsertProject(_, _)
InsertProject(sorted, p) ==
    IF sorted = <<>> THEN <<p>>
    ELSE IF CompareProjects(Head(sorted), p) > 0 THEN <<p>> \o sorted
    ELSE <<Head(sorted)>> \o InsertProject(Tail(sorted), p)

\* Array.prototype.sort with that comparator (a stable sort).
RECURSIVE SortProjects(_)
SortProjects(ps) ==
    IF ps = <<>> THEN <<>>
    ELSE InsertProject(SortProjects(SubSeq(ps, 1, Len(ps) - 1)), ps[Len(ps)])

\* The argument of processTasksIntoProjects: an array, or something else.
TaskArray(items) == [isArray |-> TRUE, items |-> items]
NotAnArray == [isArray |-> FALSE, items |-> <<>>]

\* processTasksIntoProjects(tasks).
ProcessTasksIntoProjects(tasks) ==
    IF ~tasks.isArray THEN <<>>
    ELSE LET map == GroupTasks(<<>>, tasks.items, 1)
         IN  SortProjects([i \in DOMAIN map |-> Finalize(map[i])])

(***************************************************************************)
(* Inputs of the aggregation                                               *)
(***************************************************************************)
\* The longest list of common tasks, the longest list drawn from the whole
\* pool, and the length of the uniform lists.
MaxTasks == 3
ShortTasks == 2
ManyUniformTasks == 40

\* A folder, the list inside it, a loose list whose id is the folder's, and
\* two more loose lists; a folder reference without an id.
FolderAlpha == Ref("7", "Alpha")
ListInAlpha == Ref("1", "Inbox")
LooseList7 == Ref("7", "Backlog")
LooseList2 == Ref("2", "Sundry")
LooseList3 == Ref("3", "Misc")
HiddenFolder == Ref("", "hidden")

\* Due dates around now and around the end of the seven days.
TwoDaysAgo == Due(DateStr(Now - (2 * oneDay)))
InTwoDays == Due(DateStr(Now + (2 * oneDay)))
ExactlyNow == Due(DateStr(Now))
InSevenDays == Due(DateStr(sevenDaysFromNow))
AfterSevenDays == Due(DateStr(sevenDaysFromNow + 1))
UnreadableDue == Due(NotADate)
ZeroDue == Due(DateStr(0))

\* Statuses the upstream reports.
OpenStatus == Status("open", InProgress)
ClosedStatus == Status("closed", LowerDone)

\* The entries a task array is made of: the common ones (closed, overdue,
\* due soon and undated tasks of a folder, of a loose list with the folder's
\* id and of two other lists), and with them the tasks on the edges of the
\* due-date window, the ones without a readable date, and the skipped ones.
CommonTasks ==
    { RawTask(ListInAlpha, FolderAlpha, ClosedStatus, NullDate),
      RawTask(ListInAlpha, FolderAlpha, OpenStatus, TwoDaysAgo),
      RawTask(ListInAlpha, FolderAlpha, OpenStatus, InTwoDays),
      RawTask(ListInAlpha, FolderAlpha, OpenStatus, NullDate),
      RawTask(ListInAlpha, FolderAlpha, Status("open", TitleComplete), TwoDaysAgo),
      RawTask(LooseList7, NoRef, OpenStatus, TwoDaysAgo),
      RawTask(LooseList2, NoRef, Status("custom", UpperClosed), InTwoDays),
      RawTask(LooseList3, HiddenFolder, NoStatus, TwoDaysAgo) }
TaskPool ==
    CommonTasks \cup
    { RawTask(LooseList7, NoRef, ClosedStatus, InTwoDays),
      RawTask(LooseList2, NoRef, OpenStatus, ExactlyNow),
      RawTask(LooseList2, NoRef, OpenStatus, InSevenDays),
      RawTask(LooseList2, NoRef, OpenStatus, AfterSevenDays),
      RawTask(LooseList2, NoRef, OpenStatus, UnreadableDue),
      RawTask(LooseList2, NoRef, OpenStatus, ZeroDue),
      RawTask(NoRef, FolderAlpha, OpenStatus, TwoDaysAgo),
      RawTask(LooseList2, NoRef, Status("custom", UpperComplete), TwoDaysAgo),
      RawTask(LooseList2, NoRef, Status("open", MixedClosed), TwoDaysAgo),
      RawTask(LooseList2, NoRef, Status("custom", TitleDone), TwoDaysAgo),
      NullTask }

\* task.id: the tasks of one array are numbered by position.
Numbered(items) == [k \in DOMAIN items |-> [items[k] EXCEPT !.id = k]]

\* Every array of up to MaxTasks common tasks, every array of up to ShortTasks
\* entries of the whole pool, and the arrays of ManyUniformTasks tasks of one
\* folder of which the first c are closed.
FreeFormInputs ==
    UNION {[1..n -> CommonTasks] : n \in 0..MaxTasks}
        \cup UNION {[1..n -> TaskPool] : n \in 0..ShortTasks}
UniformInputs ==
    {[k \in 1..ManyUniformTasks |->
        IF k <= c THEN RawTask(ListInAlpha, FolderAlpha, ClosedStatus, NullDate)
        ELSE RawTask(ListInAlpha, FolderAlpha, OpenStatus, InTwoDays)]
     : c \in 0..ManyUniformTasks}
AggregationInputs ==
    {TaskArray(Numbered(items)) : items \in FreeFormInputs \cup UniformInputs}
        \cup {NotAnArray}

\* The array with its items rearranged as f tells.
Rearranged(tasks, f) ==
    [tasks EXCEPT !.items = [k \in DOMAIN tasks.items |-> tasks.items[f[k]]]]

(***************************************************************************)
(* processTasksIntoProjects: the calls                                     *)
(***************************************************************************)
\* processTasksIntoProjects(rawTasks) runs (it is synchronous).
ProcessCalled ==
    /\ apc = "called"
    /\ processed' = ProcessTasksIntoProjects(rawTasks)
    /\ apc' = "returned"
    /\ UNCHANGED <<rawTasks, reordered, reprocessed>>
    /\ UNCHANGED notAggVars

\* The same tasks are processed again in another order, by the same clock.
ProcessCalledReordered ==
    /\ apc = "returned"
    /\ Len(rawTasks.items) <= MaxTasks
    /\ \E f \in Permutation(Len(rawTasks.items)) :
        /\ reordered' = Rearranged(rawTasks, f)
        /\ reprocessed' = ProcessTasksIntoProjects(Rearranged(rawTasks, f))
    /\ apc' = "reprocessed"
    /\ UNCHANGED <<rawTasks, processed>>
    /\ UNCHANGED notAggVars

(***************************************************************************)
(* The dashboard (src/App.tsx): values                                     *)
(*                                                                         *)
(* The component treats the spaces, projects, comments and dates it holds  *)
(* as opaque values: it stores, shows and persists them.  A value is       *)
(* modelled by where it came from: the initial state of the component, the *)
(* snapshot an earlier session persisted, or the refresh that produced it  *)
(* (by), and for which scope (0 for all spaces, or a space id).            *)
(***************************************************************************)
\* The spaces of the team.
SpaceIds == {1, 2}

\* The all-spaces scope, and selectedSpaceId === null.
HomeScope == 0
NoSpace == 0

\* What an array holds: nothing, elements, or (projects only) projects of
\* which the TS Sales rule keeps none.
Data(origin, by, scope, rich, filter, content) ==
    [origin |-> origin, by |-> by, scope |-> scope, rich |-> rich, filter |-> filter,
     content |-> content]

\* useState([]), and the arrays and the date of the snapshot in storage; an
\* earlier session may have stored arrays with nothing in them.
EmptyArray == Data("initial", 0, HomeScope, FALSE, "none", "none")
MountDate == Data("initial", 0, HomeScope, FALSE, "none", "some")
CachedSpaces == Data("cache", 0, HomeScope, FALSE, "none", "some")
CachedProjects == Data("cache", 0, HomeScope, FALSE, "none", "overdue")
CachedNoSpaces == Data("cache", 0, HomeScope, FALSE, "none", "none")
CachedNoProjects == Data("cache", 0, HomeScope, FALSE, "none", "none")
CachedComments == Data("cache", 0, HomeScope, TRUE, "none", "some")
CachedTime == Data("cache", 0, HomeScope, FALSE, "none", "some")

\* new Date(s) for a string that is no date: an Invalid Date (nothing throws).
InvalidDate == Data("invalid", 0, HomeScope, FALSE, "none", "some")

\* What the upstream can hold: spaces or none, and no task, tasks of projects
\* the TS Sales rule all removes and of which none is overdue, or tasks of
\* projects it keeps with overdue ones among them.  A list on display holds
\* nothing ("none"), projects none of which is overdue ("some"), or projects
\* with overdue ones among them ("overdue").
SpaceContents == {"none", "some"}
ProjectContents == {"none", "outside", "overdue"}

\* What refresh r obtained: the spaces fetchSpaces() returned, the projects of
\* processTasksIntoProjects(await fetchTeamTasks(scope)), and new Date().
FetchedSpaces(r, content) == Data("refresh", r, HomeScope, FALSE, "none", content)
FetchedProjects(r, scope, content) == Data("refresh", r, scope, FALSE, "none", content)
DateOf(r) == Data("refresh", r, HomeScope, FALSE, "none", "some")

\* array.length === 0
IsEmpty(array) == array.content = "none"

\* The list holds a project of the space: p.spaceName === spaceId for some p.
\* A list obtained for one space holds projects of that space only.
ListsProjectOf(list, spaceId) ==
    ~IsEmpty(list) /\ list.scope \in {HomeScope, spaceId}

\* projects.filter(p => p.stats.overdueTasks > 0) holds a project of the space.
ListsOverdueOf(list, spaceId) ==
    list.content = "overdue" /\ ListsProjectOf(list, spaceId)

\* The TS Sales rule of loadAllData and of filterProjectsForSpace: it is
\* applied to the projects of the spaces found in the spaces list it is given,
\* and finds none in an empty list.  What it leaves holds projects or none.
FilterProjects(list, spacesList) ==
    IF IsEmpty(spacesList)
        THEN [list EXCEPT !.filter = "skipped",
                          !.content = IF @ = "outside" THEN "some" ELSE @]
        ELSE [list EXCEPT !.filter = "applied",
                          !.content = IF @ = "outside" THEN "none" ELSE @]

\* The projects go on as they are, without their comments.
EnrichmentSkipped(list) == list

\* enrichProjectsWithComments(list): the projects with their comments.
Enriched(list) == [list EXCEPT !.rich = TRUE]

\* enriched.flatMap(p => p.recentComments).sort(...)
AllComments(list) == [list EXCEPT !.rich = TRUE, !.filter = "none"]

\* The AI analysis on display: null, or the one a refresh obtained.
NoAnalysis == [by |-> 0, space |-> NoSpace]
AnalysisOf(r, space) == [by |-> r, space |-> space]

\* The error banner: null, or the message of the error a refresh caught.
NoBanner == 0

(***************************************************************************)
(* localStorage and the caching helpers                                    *)
(***************************************************************************)
\* An entry: missing (getItem returns null), a string JSON.stringify or
\* toISOString wrote, or a string that does not parse.
Absent == [kind |-> "absent", val |-> EmptyArray]
Stored(val) == [kind |-> "text", val |-> val]
Garbage == [kind |-> "garbage", val |-> EmptyArray]

\* JSON.parse(entry): whether it throws, and what it returns.
ParseThrows(entry) == entry.kind = "garbage"
Parse(entry) == entry.val

\* new Date(cachedTime)
ParseDate(entry) == IF entry.kind = "garbage" THEN InvalidDate ELSE entry.val

\* localStorage before the component mounts: nothing, a whole snapshot, or a
\* snapshot with entries missing or unreadable.
Snapshot(sp, pr, cm, tm) == [spaces |-> sp, projects |-> pr, comments |-> cm, time |-> tm]
NoSnapshot == Snapshot(Absent, Absent, Absent, Absent)
WholeSnapshot ==
    Snapshot(Stored(CachedSpaces), Stored(CachedProjects), Stored(CachedComments),
             Stored(CachedTime))
StorageInputs ==
    { NoSnapshot,
      WholeSnapshot,
      [WholeSnapshot EXCEPT !.comments = Absent, !.time = Absent],
      [WholeSnapshot EXCEPT !.spaces = Absent],
      [WholeSnapshot EXCEPT !.projects = Absent],
      [WholeSnapshot EXCEPT !.spaces = Garbage],
      [WholeSnapshot EXCEPT !.projects = Garbage],
      [WholeSnapshot EXCEPT !.comments = Garbage],
      [WholeSnapshot EXCEPT !.time = Garbage],
      [WholeSnapshot EXCEPT !.spaces = Stored(CachedNoSpaces)],
      [WholeSnapshot EXCEPT !.projects = Stored(CachedNoProjects)] }

\* The setItem call of saveToCache that throws: none, or the first .. fourth.
NoFailure == 0
SetItemFailures == 0..4

\* saveToCache(dataSpaces, dataProjects, dataComments) by refresh r, when the
\* setItem call number failAt throws: the calls before it have been made.
SaveToCache(store, dataSpaces, dataProjects, dataComments, r, failAt) ==
    LET done(k) == failAt = NoFailure \/ k < failAt
    IN  [spaces |-> IF done(1) THEN Stored(dataSpaces) ELSE store.spaces,
         projects |-> IF done(2) THEN Stored(dataProjects) ELSE store.projects,
         comments |-> IF done(3) THEN Stored(dataComments) ELSE store.comments,
         time |-> IF done(4) THEN Stored(DateOf(r)) ELSE store.time]

\* loadFromCache(): the state after the set calls it made, and what it returns.
LoadFromCache(state, store) ==
    IF store.spaces.kind = "absent" \/ store.projects.kind = "absent"
    THEN [app |-> state, hasCache |-> FALSE]
    ELSE IF ParseThrows(store.spaces)
    THEN [app |-> state, hasCache |-> FALSE]
    ELSE LET s1 == [state EXCEPT !.spaces = Parse(store.spaces)]
         IN  IF ParseThrows(store.projects)
             THEN [app |-> s1, hasCache |-> FALSE]
             ELSE LET s2 == [s1 EXCEPT !.projects = Parse(store.projects)]
                  IN  IF store.comments.kind # "absent" /\ ParseThrows(store.comments)
                      THEN [app |-> s2, hasCache |-> FALSE]
                      ELSE LET s3 == IF store.comments.kind # "absent"
                                     THEN [s2 EXCEPT !.recentGlobalComments =
                                                         Parse(store.comments)]
                                     ELSE s2
                               s4 == IF store.time.kind # "absent"
                                     THEN [s3 EXCEPT !.lastUpdated = ParseDate(store.time)]
                                     ELSE s3
                           IN  [app |-> s4, hasCache |-> TRUE]

(***************************************************************************)
(* The dashboard: state, refreshes and handlers                            *)
(***************************************************************************)
\* How many events a session has after the mount (refreshes the handlers and
\* the timer start, clicks on the project table and on the side panel), and
\* how many saveToCache calls of a session run out of quota.
MaxEvents == 2
MaxSaveFailures == 1

\* The state hooks of App, as the first render has them.
InitialState ==
    [view |-> "home", spaces |-> EmptyArray, selectedSpaceId |-> NoSpace,
     projects |-> EmptyArray, recentGlobalComments |-> EmptyArray,
     loading |-> FALSE, tasksLoading |-> FALSE, commentsLoading |-> FALSE,
     error |-> NoBanner, selectedProject |-> NoSpace, lastUpdated |-> MountDate,
     aiAnalysis |-> NoAnalysis, aiLoading |-> FALSE]

\* const isGlobalLoading
IsGlobalLoading(state) ==
    state.loading \/ state.tasksLoading \/ state.commentsLoading \/ state.aiLoading

\* The main area shows the spinner instead of the view.
ShowsSpinner(state) == state.loading /\ IsEmpty(state.projects)

\* An async call in progress: initApp, loadAllData or loadSpaceData, with its
\* arguments, the spaces of the render it was started from (its closure),
\* where it stands, and what started it.
Refresh(kind, trigger, pc, background, skipAI, spaceId, spacesList) ==
    [kind |-> kind, trigger |-> trigger, pc |-> pc, background |-> background,
     skipAI |-> skipAI, spaceId |-> spaceId, spacesList |-> spacesList,
     processedProjects |-> EmptyArray]

\* saveToCache has not been called.
NeverSaved == [by |-> 0, failedAt |-> NoFailure, failures |-> 0]

\* The record of a saveToCache call by refresh r.
SaveBy(r, failAt) ==
    [by |-> r, failedAt |-> failAt,
     failures |-> IF failAt = NoFailure THEN lastSave.failures
                  ELSE lastSave.failures + 1]

\* The setItem calls that can throw in the next saveToCache call.
PossibleFailures ==
    IF lastSave.failures < MaxSaveFailures THEN SetItemFailures ELSE {NoFailure}

\* The call has ended: its locals are gone.
Finished(refresh) ==
    [refresh EXCEPT !.pc = "done", !.spacesList = EmptyArray,
                    !.processedProjects = EmptyArray]

\* The component is mounted (its effects have run).
Mounted == refreshes # <<>>

\* The events of the session so far: the refreshes started after the startup
\* and the clicks on the project table and the side panel.
Events == (Len(refreshes) - 1) + clicks

\* Another refresh may start, another click may come.
MayStart == Mounted /\ Events < MaxEvents

\* The first lines of loadAllData, up to the await.
BeginLoadAllData(state, background) ==
    [state EXCEPT !.loading = IF ~background THEN TRUE ELSE @,
                  !.error = NoBanner]

\* The first lines of loadSpaceData, up to the await.
BeginLoadSpaceData(state, skipAI) ==
    [state EXCEPT !.loading = TRUE, !.tasksLoading = TRUE,
                  !.commentsLoading = FALSE, !.aiLoading = FALSE,
                  !.error = NoBanner,
                  !.aiAnalysis = IF ~skipAI THEN NoAnalysis ELSE @]

\* loadAllData(spacesList, background) is called by a handler or the timer.
CallLoadAllData(state, spacesList, background, trigger) ==
    /\ app' = BeginLoadAllData(state, background)
    /\ refreshes' = Append(refreshes,
            Refresh("all", trigger, "tasks", background, TRUE, NoSpace, spacesList))
    /\ UNCHANGED <<localStorage, aiCalls, lastSave, clicks>>

\* A call of loadSpaceData that aborts the refreshes in flight.
CallLoadSpaceDataAborting(state, spaceId, skipAI, trigger) ==
    /\ app' = BeginLoadSpaceData(state, skipAI)
    /\ refreshes' = Append([k \in DOMAIN refreshes |-> Finished(refreshes[k])],
            Refresh("space", trigger, "tasks", FALSE, skipAI, spaceId, state.spaces))
    /\ UNCHANGED <<localStorage, aiCalls, lastSave, clicks>>

\* loadSpaceData(spaceId, skipAI) is called by a handler or the timer.
CallLoadSpaceData(state, spaceId, skipAI, trigger) ==
    /\ app' = BeginLoadSpaceData(state, skipAI)
    /\ refreshes' = Append(refreshes,
            Refresh("space", trigger, "tasks", FALSE, skipAI, spaceId, state.spaces))
    /\ UNCHANGED <<localStorage, aiCalls, lastSave, clicks>>

\* The initial-load effect: initApp() up to await fetchSpaces().
InitApp ==
    /\ ~Mounted
    /\ LET loaded == LoadFromCache(app, localStorage)
       IN  /\ app' = [loaded.app EXCEPT
                         !.loading = IF ~loaded.hasCache THEN TRUE ELSE @]
           /\ refreshes' = <<Refresh("init", "startup", "spaces", loaded.hasCache,
                                     TRUE, NoSpace, EmptyArray)>>
    /\ UNCHANGED <<localStorage, aiCalls, lastSave, clicks>>
    /\ UNCHANGED notAppVars

\* fetchSpaces() resolves: initApp goes on into loadAllData(fetchedSpaces,
\* hasCache), up to await fetchTeamTasks().
InitSpacesArrive ==
    /\ Mounted
    /\ refreshes[1].pc = "spaces"
    /\ \E content \in SpaceContents :
        /\ app' = BeginLoadAllData([app EXCEPT !.spaces = FetchedSpaces(1, content)],
                                   refreshes[1].background)
        /\ refreshes' = [refreshes EXCEPT ![1].pc = "tasks",
                                          ![1].spacesList = FetchedSpaces(1, content)]
    /\ UNCHANGED <<localStorage, aiCalls, lastSave, clicks>>
    /\ UNCHANGED notAppVars

\* fetchSpaces() rejects: the catch of initApp.
InitSpacesFail ==
    /\ Mounted
    /\ refreshes[1].pc = "spaces"
    /\ app' = [app EXCEPT !.error = 1, !.loading = FALSE]
    /\ refreshes' = [refreshes EXCEPT ![1] = Finished(@)]
    /\ UNCHANGED <<localStorage, aiCalls, lastSave, clicks>>
    /\ UNCHANGED notAppVars

\* loadAllData: fetchTeamTasks() resolves; the rest of the try and the finally.
AllTasksArrive(r) ==
    /\ refreshes[r].kind \in {"init", "all"}
    /\ refreshes[r].pc = "tasks"
    /\ \E failAt \in PossibleFailures, content \in ProjectContents :
        LET allProjects == FilterProjects(FetchedProjects(r, HomeScope, content),
                                          refreshes[r].spacesList)
            shown == [app EXCEPT !.projects = allProjects,
                                 !.lastUpdated = DateOf(r)]
            foreground == [shown EXCEPT !.view = "home", !.selectedSpaceId = NoSpace]
            after == IF refreshes[r].background THEN shown ELSE foreground
        IN  /\ localStorage' = SaveToCache(localStorage, refreshes[r].spacesList,
                                           allProjects, EmptyArray, r, failAt)
            /\ lastSave' = SaveBy(r, failAt)
            /\ app' = [after EXCEPT !.loading = FALSE, !.tasksLoading = FALSE]
    /\ refreshes' = [refreshes EXCEPT ![r] = Finished(@)]
    /\ UNCHANGED <<aiCalls, clicks>>
    /\ UNCHANGED notAppVars

\* loadAllData: fetchTeamTasks() rejects; the catch and the finally.
AllTasksFail(r) ==
    /\ refreshes[r].kind \in {"init", "all"}
    /\ refreshes[r].pc = "tasks"
    /\ app' = [app EXCEPT !.error = IF ~refreshes[r].background THEN r ELSE @,
                          !.loading = FALSE, !.tasksLoading = FALSE]
    /\ refreshes' = [refreshes EXCEPT ![r] = Finished(@)]
    /\ UNCHANGED <<localStorage, aiCalls, lastSave, clicks>>
    /\ UNCHANGED notAppVars

\* loadSpaceData: fetchTeamTasks(spaceId) resolves; on to the await of
\* enrichProjectsWithComments.
SpaceTasksArrive(r) ==
    /\ refreshes[r].kind = "space"
    /\ refreshes[r].pc = "tasks"
    /\ \E content \in ProjectContents :
       LET processedProjects ==
               FilterProjects(FetchedProjects(r, refreshes[r].spaceId, content),
                              refreshes[r].spacesList)
       IN  /\ app' = [app EXCEPT !.projects = processedProjects,
                                 !.tasksLoading = FALSE,
                                 !.commentsLoading = TRUE]
           /\ refreshes' = [refreshes EXCEPT ![r].pc = "enrich",
                                             ![r].processedProjects = processedProjects]
    /\ UNCHANGED <<localStorage, aiCalls, lastSave, clicks>>
    /\ UNCHANGED notAppVars

\* loadSpaceData: fetchTeamTasks(spaceId) rejects; the catch and the finally.
SpaceTasksFail(r) ==
    /\ refreshes[r].kind = "space"
    /\ refreshes[r].pc = "tasks"
    /\ app' = [app EXCEPT !.error = r, !.loading = FALSE, !.tasksLoading = FALSE,
                          !.commentsLoading = FALSE, !.aiLoading = FALSE,
                          !.selectedProject =
                              IF refreshes[r].trigger = "navigate"
                              THEN refreshes[r].spaceId ELSE @]
    /\ refreshes' = [refreshes EXCEPT ![r] = Finished(@)]
    /\ UNCHANGED <<localStorage, aiCalls, lastSave, clicks>>
    /\ UNCHANGED notAppVars

\* generateDashboardSummary(enrichedProjects, allComments), called by refresh r.
SummaryCall(r, list, comments) == [by |-> r, projects |-> list, comments |-> comments]

\* Refresh r has called generateDashboardSummary.
Summarized(r) == \E c \in aiCalls : c.by = r

\* The summary is never skipped.
ShouldSummarizeAlways(refresh) == TRUE

\* if (!skipAI)
ShouldSummarize(refresh) == ~refresh.skipAI

\* loadSpaceData: enrichProjectsWithComments resolves (it never rejects); the
\* feed, the save, and on to the AI summary or to the end.
EnrichmentReturns(r) ==
    /\ refreshes[r].kind = "space"
    /\ refreshes[r].pc = "enrich"
    /\ \E failAt \in PossibleFailures :
        LET enriched == Enriched(refreshes[r].processedProjects)
            allComments == AllComments(enriched)
            shown == [app EXCEPT !.projects = enriched,
                                 !.recentGlobalComments = allComments,
                                 !.commentsLoading = FALSE]
        IN  /\ localStorage' = SaveToCache(localStorage, refreshes[r].spacesList,
                                           enriched, allComments, r, failAt)
            /\ lastSave' = SaveBy(r, failAt)
            /\ IF ShouldSummarize(refreshes[r])
               THEN /\ app' = [shown EXCEPT !.aiLoading = TRUE]
                    /\ aiCalls' = aiCalls \cup {SummaryCall(r, enriched, allComments)}
                    /\ refreshes' = [refreshes EXCEPT ![r].pc = "summary"]
               ELSE /\ app' = [shown EXCEPT
                                  !.lastUpdated = DateOf(r),
                                  !.loading = FALSE,
                                  !.selectedProject =
                                      IF refreshes[r].trigger = "navigate"
                                      THEN refreshes[r].spaceId ELSE @]
                    /\ aiCalls' = aiCalls
                    /\ refreshes' = [refreshes EXCEPT ![r] = Finished(@)]
    /\ UNCHANGED clicks
    /\ UNCHANGED notAppVars

\* loadSpaceData: generateDashboardSummary resolves; the end of the try and
\* the finally.
SummaryReturns(r) ==
    /\ refreshes[r].kind = "space"
    /\ refreshes[r].pc = "summary"
    /\ app' = [app EXCEPT !.aiAnalysis = AnalysisOf(r, refreshes[r].spaceId),
                          !.aiLoading = FALSE,
                          !.lastUpdated = DateOf(r),
                          !.loading = FALSE,
                          !.selectedProject =
                              IF refreshes[r].trigger = "navigate"
                              THEN refreshes[r].spaceId ELSE @]
    /\ refreshes' = [refreshes EXCEPT ![r] = Finished(@)]
    /\ UNCHANGED <<localStorage, aiCalls, lastSave, clicks>>
    /\ UNCHANGED notAppVars

\* loadSpaceData: generateDashboardSummary rejects: it builds its prompt from
\* the comments before its try block, and throws on a comment without a user.
\* The catch and the finally.
SummaryFails(r) ==
    /\ refreshes[r].kind = "space"
    /\ refreshes[r].pc = "summary"
    /\ ~IsEmpty(refreshes[r].processedProjects)
    /\ app' = [app EXCEPT !.error = r, !.loading = FALSE, !.tasksLoading = FALSE,
                          !.commentsLoading = FALSE, !.aiLoading = FALSE,
                          !.selectedProject =
                              IF refreshes[r].trigger = "navigate"
                              THEN refreshes[r].spaceId ELSE @]
    /\ refreshes' = [refreshes EXCEPT ![r] = Finished(@)]
    /\ UNCHANGED <<localStorage, aiCalls, lastSave, clicks>>
    /\ UNCHANGED notAppVars

\* The callback of the auto-refresh interval, in space view.
TimerFiresInSpaceView ==
    /\ MayStart
    /\ app.view = "space" /\ app.selectedSpaceId # NoSpace
    /\ CallLoadSpaceData(app, app.selectedSpaceId, TRUE, "timer")
    /\ UNCHANGED notAppVars

\* The callback of the auto-refresh interval, in home view.
TimerFiresInHomeView ==
    /\ MayStart
    /\ ~(app.view = "space" /\ app.selectedSpaceId # NoSpace)
    /\ app.view = "home"
    /\ CallLoadAllData(app, app.spaces, TRUE, "timer")
    /\ UNCHANGED notAppVars

\* handleRefresh: the Sync Data button, enabled unless isGlobalLoading.
HandleRefresh ==
    /\ MayStart
    /\ ~IsGlobalLoading(app)
    /\ IF app.view = "space" /\ app.selectedSpaceId # NoSpace
       THEN CallLoadSpaceData(app, app.selectedSpaceId, FALSE, "manual")
       ELSE CallLoadAllData(app, app.spaces, FALSE, "manual")
    /\ UNCHANGED notAppVars

\* handleSelectProject: a row of the project table of the space view; the
\* project of the row is one of the projects on display.
HandleSelectProject(spaceId) ==
    /\ MayStart
    /\ app.view = "space" /\ ~ShowsSpinner(app)
    /\ ListsProjectOf(app.projects, spaceId)
    /\ app' = [app EXCEPT !.selectedProject = spaceId]
    /\ clicks' = clicks + 1
    /\ UNCHANGED <<refreshes, localStorage, aiCalls, lastSave>>
    /\ UNCHANGED notAppVars

\* handleClosePanel: the close button or the backdrop of the side panel, which
\* is rendered while a project is selected.
HandleClosePanel ==
    /\ MayStart
    /\ app.selectedProject # NoSpace
    /\ app' = [app EXCEPT !.selectedProject = NoSpace]
    /\ clicks' = clicks + 1
    /\ UNCHANGED <<refreshes, localStorage, aiCalls, lastSave>>
    /\ UNCHANGED notAppVars

\* handleNavigateToProject: "View Details" of a project of the home overview,
\* which lists the overdue projects; project.spaceName is its space.
HandleNavigateToProject(spaceId) ==
    /\ MayStart
    /\ app.view = "home" /\ ~ShowsSpinner(app)
    /\ ListsOverdueOf(app.projects, spaceId)
    /\ CallLoadSpaceData([app EXCEPT !.view = "space", !.selectedSpaceId = spaceId],
                         spaceId, TRUE, "navigate")
    /\ UNCHANGED notAppVars

\* handleSelectSpace: a space button of the navigation bar.
HandleSelectSpace(spaceId) ==
    /\ MayStart
    /\ ~IsEmpty(app.spaces)
    /\ CallLoadSpaceData([app EXCEPT !.view = "space", !.selectedSpaceId = spaceId],
                         spaceId, FALSE, "select")
    /\ UNCHANGED notAppVars

\* handleNavigateHome: the Businesses button of the navigation bar.
HandleNavigateHome ==
    /\ MayStart
    /\ CallLoadAllData([app EXCEPT !.view = "home", !.selectedSpaceId = NoSpace],
                       app.spaces, FALSE, "home")
    /\ UNCHANGED notAppVars

\* onRefresh of the AI summary card of the space view; its button is disabled
\* while aiLoading || commentsLoading.
HandleCardRefresh ==
    /\ MayStart
    /\ app.view = "space" /\ ~ShowsSpinner(app) /\ app.selectedSpaceId # NoSpace
    /\ ~(app.aiLoading \/ app.commentsLoading)
    /\ CallLoadSpaceData(app, app.selectedSpaceId, FALSE, "card")
    /\ UNCHANGED notAppVars

(***************************************************************************)
(* The specifications                                                      *)
(***************************************************************************)
\* No call has been made yet; nothing else is running.
FetchInit ==
    /\ call = "none"
    /\ fwr = FwrIdle
    /\ sleeps = <<>>
    /\ page = 0
    /\ hasMore = FALSE
    /\ allTasks = <<>>
    /\ pageError = NoError
    /\ outcome = Pending
    /\ lastResult = NetworkThrow
    /\ ended = NotEnded
    /\ bodyRead = "none"
    /\ heap = [projs |-> <<>>, tasks |-> <<>>]
    /\ callerHeap = [projs |-> <<>>, tasks |-> <<>>]
    /\ projects = <<>>
    /\ upstream = "none"
    /\ thirtyDaysAgo = 0
    /\ tasksToFetch = <<>>
    /\ chunkStart = 0
    /\ inflight = <<>>
    /\ results = <<>>
    /\ enrichedProjects = <<>>
    /\ epc = "idle"
    /\ rawTasks = NotAnArray
    /\ processed = <<>>
    /\ reordered = NotAnArray
    /\ reprocessed = <<>>
    /\ apc = "idle"
    /\ localStorage = NoSnapshot
    /\ app = InitialState
    /\ refreshes = <<>>
    /\ aiCalls = {}
    /\ lastSave = NeverSaved
    /\ clicks = 0

FetchNext ==
    \/ StartFetchSpaces
    \/ StartFetchTeamTasks
    \/ SpacesAttemptRetried
    \/ SpacesFetchSettles
    \/ SpacesBodyRead
    \/ TasksAttemptRetried
    \/ TasksPageSettles
    \/ TasksBodyRead
    \/ TasksCloneRead
    \/ StartFetchTaskComments
    \/ TaskCommentsAttemptRetried
    \/ TaskCommentsFetchSettles
    \/ TaskCommentsBodyRead
    \/ BackoffTimerFires

\* One call of fetchSpaces, of fetchTeamTasks or of fetchTaskComments against
\* any upstream.
SpecFetch == FetchInit /\ [][FetchNext]_vars

\* enrichProjectsWithComments is about to be called with one of the inputs; no
\* other call is in progress.
EnrichInit ==
    /\ \E sc \in {x \in Scenarios : ValidScenario(x)} :
        /\ heap = InputHeap(sc)
        /\ callerHeap = InputHeap(sc)
        /\ projects = InputProjects(sc)
        /\ upstream = sc.upstream
    /\ thirtyDaysAgo = 0
    /\ tasksToFetch = <<>>
    /\ chunkStart = 0
    /\ inflight = <<>>
    /\ results = <<>>
    /\ enrichedProjects = <<>>
    /\ epc = "called"
    /\ call = "none"
    /\ fwr = FwrIdle
    /\ sleeps = <<>>
    /\ page = 0
    /\ hasMore = FALSE
    /\ allTasks = <<>>
    /\ pageError = NoError
    /\ outcome = Pending
    /\ lastResult = NetworkThrow
    /\ ended = NotEnded
    /\ bodyRead = "none"
    /\ rawTasks = NotAnArray
    /\ processed = <<>>
    /\ reordered = NotAnArray
    /\ reprocessed = <<>>
    /\ apc = "idle"
    /\ localStorage = NoSnapshot
    /\ app = InitialState
    /\ refreshes = <<>>
    /\ aiCalls = {}
    /\ lastSave = NeverSaved
    /\ clicks = 0

EnrichNext ==
    \/ EnrichCalled
    \/ \E j \in DOMAIN inflight : CommentAttemptRetried(j)
    \/ \E j \in DOMAIN inflight : CommentBackoffTimerFires(j)
    \/ \E j \in DOMAIN inflight : CommentFetchSettles(j)
    \/ \E j \in DOMAIN inflight : CommentBodyRead(j)
    \/ ChunkCompletes
    \/ PauseTimerFires

\* One call of enrichProjectsWithComments against any upstream.
SpecEnrich == EnrichInit /\ [][EnrichNext]_vars

\* processTasksIntoProjects is about to be called with one of the inputs;
\* nothing else is running.
AggregateInit ==
    /\ rawTasks \in AggregationInputs
    /\ processed = <<>>
    /\ reordered = NotAnArray
    /\ reprocessed = <<>>
    /\ apc = "called"
    /\ call = "none"
    /\ fwr = FwrIdle
    /\ sleeps = <<>>
    /\ page = 0
    /\ hasMore = FALSE
    /\ allTasks = <<>>
    /\ pageError = NoError
    /\ outcome = Pending
    /\ lastResult = NetworkThrow
    /\ ended = NotEnded
    /\ bodyRead = "none"
    /\ heap = [projs |-> <<>>, tasks |-> <<>>]
    /\ callerHeap = [projs |-> <<>>, tasks |-> <<>>]
    /\ projects = <<>>
    /\ upstream = "none"
    /\ thirtyDaysAgo = 0
    /\ tasksToFetch = <<>>
    /\ chunkStart = 0
    /\ inflight = <<>>
    /\ results = <<>>
    /\ enrichedProjects = <<>>
    /\ epc = "idle"
    /\ localStorage = NoSnapshot
    /\ app = InitialState
    /\ refreshes = <<>>
    /\ aiCalls = {}
    /\ lastSave = NeverSaved
    /\ clicks = 0

AggregateNext ==
    \/ ProcessCalled
    \/ ProcessCalledReordered

\* One call of processTasksIntoProjects, and one more on the same tasks in
\* another order.
SpecAggregate == AggregateInit /\ [][AggregateNext]_vars

\* The component is about to mount over one of the storage contents; nothing
\* else is running.
AppInit ==
    /\ localStorage \in StorageInputs
    /\ app = InitialState
    /\ refreshes = <<>>
    /\ aiCalls = {}
    /\ lastSave = NeverSaved
    /\ clicks = 0
    /\ rawTasks = NotAnArray
    /\ processed = <<>>
    /\ reordered = NotAnArray
    /\ reprocessed = <<>>
    /\ apc = "idle"
    /\ call = "none"
    /\ fwr = FwrIdle
    /\ sleeps = <<>>
    /\ page = 0
    /\ hasMore = FALSE
    /\ allTasks = <<>>
    /\ pageError = NoError
    /\ outcome = Pending
    /\ lastResult = NetworkThrow
    /\ ended = NotEnded
    /\ bodyRead = "none"
    /\ heap = [projs |-> <<>>, tasks |-> <<>>]
    /\ callerHeap = [projs |-> <<>>, tasks |-> <<>>]
    /\ projects = <<>>
    /\ upstream = "none"
    /\ thirtyDaysAgo = 0
    /\ tasksToFetch = <<>>
    /\ chunkStart = 0
    /\ inflight = <<>>
    /\ results = <<>>
    /\ enrichedProjects = <<>>
    /\ epc = "idle"

AppNext ==
    \/ InitApp
    \/ InitSpacesArrive
    \/ InitSpacesFail
    \/ \E r \in DOMAIN refreshes : AllTasksArrive(r)
    \/ \E r \in DOMAIN refreshes : AllTasksFail(r)
    \/ \E r \in DOMAIN refreshes : SpaceTasksArrive(r)
    \/ \E r \in DOMAIN refreshes : SpaceTasksFail(r)
    \/ \E r \in DOMAIN refreshes : EnrichmentReturns(r)
    \/ \E r \in DOMAIN refreshes : SummaryReturns(r)
    \/ \E r \in DOMAIN refreshes : SummaryFails(r)
    \/ TimerFiresInSpaceView
    \/ TimerFiresInHomeView
    \/ HandleRefresh
    \/ \E s \in SpaceIds : HandleSelectProject(s)
    \/ HandleClosePanel
    \/ \E s \in SpaceIds : HandleNavigateToProject(s)
    \/ \E s \in SpaceIds : HandleSelectSpace(s)
    \/ HandleNavigateHome
    \/ HandleCardRefresh

\* One session of the dashboard: the startup, the timer and the user's
\* actions, over any upstream and any storage.
SpecApp == AppInit /\ [][AppNext]_vars

\* The await of refresh r settles: the request is answered or fails
\* (fetchWithRetry and the page loop are bounded, the enrichment always
\* resolves, the summary resolves or rejects), and the call runs on to its
\* next await or to its end.
RefreshSettles(r) ==
    \/ r = 1 /\ InitSpacesArrive
    \/ r = 1 /\ InitSpacesFail
    \/ AllTasksArrive(r)
    \/ AllTasksFail(r)
    \/ SpaceTasksArrive(r)
    \/ SpaceTasksFail(r)
    \/ EnrichmentReturns(r)
    \/ SummaryReturns(r)
    \/ SummaryFails(r)

(***************************************************************************)
(* Properties of fetchWithRetry, fetchSpaces and fetchTeamTasks            *)
(***************************************************************************)
\* The call has ended.
CallEnded == outcome.kind # "pending"

\* The tasks of pages 0 .. p - 1, every one a full page, in page order.
FullPages(p) == [k \in 1..(p * PAGE_SIZE) |-> k]

\* A fetch() settles in the step: the only steps out of a state that awaits a
\* fetch().
FetchSettlesInStep == fwr.pc = "fetching" /\ vars' # vars

\* The JSON of a response has been read in the step: the only steps out of a
\* state that awaits response.json().
JsonReadInStep == bodyRead = "json" /\ vars' # vars

\* The fetch() result is a 2xx response or a client error other than 429.
NotRetryable(res) ==
    /\ res.kind = "response"
    /\ \/ (res.response.status >= 200 /\ res.response.status <= 299)
       \/ (res.response.status >= 400 /\ res.response.status <= 499
            /\ res.response.status # 429)

\* The error that describes a failed fetch() result.
DescribesFailure(err, res) ==
    \/ res.kind = "throw" /\ err.kind = "network"
    \/ /\ res.kind = "response"
       /\ err.kind = "server"
       /\ err.status = res.response.status
       /\ (err.status = 429 \/ err.status >= 500)

\* C1: when a page of fetchTeamTasks fails, the call returns exactly the tasks
\* of the earlier pages, in page order, if a prior page succeeded, and throws
\* the page's error if the failing page is the first one.
C1_PartialFailurePolicy ==
    (call = "tasks" /\ CallEnded /\ pageError # NoError) =>
        IF page > 0
            THEN outcome = Returned(FullPages(page))
            ELSE outcome = Threw(pageError)

\* Page 0 succeeded with a full page and page 1 failed: the call returned.
C1_Witness ==
    /\ call = "tasks"
    /\ CallEnded
    /\ pageError # NoError
    /\ page = 1
    /\ outcome.kind = "return"
    /\ Len(outcome.value) = PAGE_SIZE

\* C2: a fetchWithRetry call never makes more fetch() calls than its retry
\* count and never returns a 429 or 5xx response; when it throws, every one of
\* its attempts has failed, it has made exactly retries attempts with a sleep
\* between each two, and it throws the failure of the last attempt.
C2_ExhaustedRetriesRaise ==
    /\ FwrRequests(fwr) <= fwr.retries
    /\ fwr.pc = "returned" =>
        ~(fwr.response.status = 429 \/ fwr.response.status >= 500)
    /\ ended.how = "returned" =>
        ~(ended.response.status = 429 \/ ended.response.status >= 500)
    /\ fwr.pc = "thrown" =>
        /\ FwrRequests(fwr) = fwr.retries
        /\ Len(sleeps) = fwr.retries - 1
        /\ DescribesFailure(fwr.lastError, lastResult)
        /\ ended = [how |-> "thrown", response |-> NoResponse, error |-> fwr.lastError]

\* A call with the task budget has thrown after 503 on its last attempt.
C2_Witness ==
    /\ fwr.pc = "thrown"
    /\ fwr.retries = TaskRetries
    /\ lastResult.kind = "response"
    /\ lastResult.response.status = 503
    /\ Len(sleeps) = TaskRetries - 1

\* C3: in the step in which an attempt yields a 2xx response or a client error
\* other than 429, fetchWithRetry returns that very response: it does not
\* throw, does not sleep and makes no further request.
C3_ReturnsImmediately ==
    [][(FetchSettlesInStep /\ NotRetryable(lastResult')) =>
        /\ ended' = [how |-> "returned", response |-> lastResult'.response,
                     error |-> NoError]
        /\ sleeps' = sleeps
        /\ fwr' = [fwr EXCEPT !.pc = "returned", !.response = lastResult'.response]
      ]_vars

\* A 404 on the second attempt has been returned as it is.
C3_Witness ==
    /\ fwr.pc = "returned"
    /\ fwr.i = 1
    /\ fwr.response.status = 404
    /\ Len(sleeps) = 1

\* C4: when the first k attempts fail retryably and the next one answers 200,
\* the call returns that response having slept exactly k times, with backoffs
\* baseDelay * 1.5^i for i = 0 .. k - 1, which are strictly increasing.
C4_RecoveryAfterTransientFailures ==
    [][(FetchSettlesInStep /\ lastResult'.kind = "response"
            /\ lastResult'.response.status = 200) =>
        /\ ended'.how = "returned"
        /\ ended'.response = lastResult'.response
        /\ Len(sleeps) = fwr.i
        /\ \A j \in 1..Len(sleeps) :
            sleeps[j].backoff.num * Pow(2, j - 1)
                = fwr.baseDelay * Pow(3, j - 1) * sleeps[j].backoff.den
        /\ \A j \in 1..(Len(sleeps) - 1) :
            RatLess(sleeps[j].backoff, sleeps[j + 1].backoff)
      ]_vars

\* 503, 503, 200 with the default budget: the 200 is returned after two sleeps.
C4_Witness ==
    /\ call = "spaces"
    /\ fwr.retries = DefaultRetries
    /\ fwr.pc = "returned"
    /\ fwr.response.status = 200
    /\ fwr.lastError = [kind |-> "server", status |-> 503, page |-> 0]
    /\ fwr.i = 2
    /\ Len(sleeps) = 2

\* C5: a task page is given up because of an HTML body only once the retry
\* budget of that page is spent.
C5_HtmlBodyIsRetried ==
    (call = "tasks" /\ CallEnded /\ pageError.kind = "html") =>
        FwrRequests(fwr) = TaskRetries

\* C6: fetchTeamTasks requests page 0 first and then the pages in increasing
\* order, never a page with index 50 or more; a page with fewer than 100 tasks
\* ends the call, which returns what it has accumulated; and with full pages
\* only, the call ends at the cap and returns the 50 pages.
C6_PaginationTerminates ==
    /\ [](call = "tasks" =>
            /\ page <= MAX_PAGES
            /\ (fwr.pc \in {"fetching", "sleeping"} => (~CallEnded /\ page < MAX_PAGES))
            /\ (bodyRead # "none" => (~CallEnded /\ page < MAX_PAGES))
            /\ (~CallEnded => (allTasks = FullPages(page) /\ page < MAX_PAGES))
            /\ (page = MAX_PAGES => outcome = Returned(FullPages(MAX_PAGES))))
    /\ [][/\ (call = "none" /\ call' = "tasks") => page' = 0
          /\ (call = "tasks") =>
                /\ page' \in {page, page + 1}
                /\ (page' = page + 1) =>
                        (lastResult'.response.body = [kind |-> "tasks", n |-> PAGE_SIZE])
                /\ (JsonReadInStep /\ lastResult.kind = "response"
                        /\ lastResult.response.status = 200
                        /\ lastResult.response.body.kind = "tasks"
                        /\ lastResult.response.body.n < PAGE_SIZE) =>
                        /\ page' = page
                        /\ outcome' = Returned(allTasks')
                        /\ Len(allTasks') = page * PAGE_SIZE + lastResult.response.body.n
         ]_vars

\* Fifty full pages: the call has ended at the cap with 5000 tasks.
C6_Witness ==
    /\ call = "tasks"
    /\ page = MAX_PAGES
    /\ outcome.kind = "return"
    /\ Len(outcome.value) = MAX_PAGES * PAGE_SIZE

(***************************************************************************)
(* Properties of fetchTaskComments and enrichProjectsWithComments          *)
(***************************************************************************)
\* The comment fetches of the current chunk that have not settled.
Outstanding == {j \in DOMAIN inflight : inflight[j].status = "pending"}

\* The task at address a was last updated more than 30 days before the call.
OlderThan30Days(h, a) ==
    /\ h.tasks[a].date_updated.numeric
    /\ h.tasks[a].date_updated.value < Now - ThirtyDays

\* The elements of a sequence.
Range(seq) == {seq[k] : k \in DOMAIN seq}

\* C7: the candidates are fetched in chunks of 6 in selection order: the
\* fetches in flight are those of the candidates chunkStart + 1 .. chunkStart +
\* 6, the results of every earlier candidate have been appended, in order, and
\* never more than 6 comment fetches are outstanding.
C7_BoundedConcurrency ==
    /\ Cardinality(Outstanding) <= chunkSize
    /\ Len(inflight) <= chunkSize
    /\ chunkStart % chunkSize = 0
    /\ epc = "fetching" =>
        /\ Len(results) = chunkStart
        /\ Len(inflight) = Min(chunkSize, Len(tasksToFetch) - chunkStart)
        /\ \A j \in DOMAIN inflight : inflight[j].item = tasksToFetch[chunkStart + j]
    /\ epc = "pausing" =>
        /\ Len(results) = chunkStart + chunkSize
        /\ inflight = <<>>
    /\ \A k \in DOMAIN results :
        /\ k <= Len(tasksToFetch)
        /\ results[k].taskId = tasksToFetch[k].taskId
        /\ results[k].projectIndex = tasksToFetch[k].projectIndex
        /\ results[k].taskName = tasksToFetch[k].taskName

\* The second chunk is in flight: the six results of the first chunk have been
\* appended and a fetch of the seventh candidate is outstanding.
C7_Witness ==
    /\ epc = "fetching"
    /\ chunkStart = chunkSize
    /\ Len(results) = chunkSize
    /\ Outstanding # {}

\* C8: a comment fetch never rejects, and resolves to the empty list whenever
\* its last attempt was not answered with a comments array; the enrichment
\* never throws, and returns one project per input project, in input order.
C8_CommentsBestEffort ==
    /\ epc # "thrown"
    /\ \A j \in DOMAIN inflight :
        /\ inflight[j].status # "rejected"
        /\ (inflight[j].status = "resolved" /\ inflight[j].why = "failed") =>
                inflight[j].comments = <<>>
    /\ epc = "done" =>
        /\ Len(enrichedProjects) = Len(projects)
        /\ \A i \in DOMAIN projects :
            /\ heap.projs[enrichedProjects[i]].id = callerHeap.projs[projects[i]].id
            /\ heap.projs[enrichedProjects[i]].name = callerHeap.projs[projects[i]].name
            /\ Len(heap.projs[enrichedProjects[i]].tasks)
                    = Len(callerHeap.projs[projects[i]].tasks)

\* Every comment fetch of a call with candidates failed, and the call returned.
C8_Witness ==
    /\ epc = "done"
    /\ Len(results) >= 2
    /\ \A k \in DOMAIN results : results[k].comments = <<>>
    /\ Len(enrichedProjects) = 2

\* C9: in the output, a task last updated more than 30 days before the call
\* has no comments, no candidate stems from it alone, and every comment of a
\* task and of a project is stamped with the id and the name of a recently
\* updated task of that project.
C9_NoStaleTaskEnriched ==
    epc = "done" =>
        \A i \in DOMAIN enrichedProjects :
            LET p == heap.projs[enrichedProjects[i]]
                Recent == {a \in Range(p.tasks) : IsCandidate(heap.tasks[a], Now - ThirtyDays)}
                Stamped(c) ==
                    \E a \in Recent :
                        c.task_id = heap.tasks[a].id /\ c.task_name = heap.tasks[a].name
            IN  /\ \A a \in Range(p.tasks) :
                    /\ OlderThan30Days(heap, a) => heap.tasks[a].comments = <<>>
                    /\ \A c \in Range(heap.tasks[a].comments) :
                        Stamped(c) /\ c.task_id = heap.tasks[a].id
                /\ \A c \in Range(p.recentComments) : Stamped(c)

\* C10: the caller's array and the objects it reaches are, at every moment of
\* the call, as they were when it was called, and the returned projects and
\* their tasks are objects the caller did not have.
C10_CallerObjectsUntouched ==
    /\ projects \in {<<>>, <<1, 2>>}
    /\ Len(heap.projs) >= Len(callerHeap.projs)
    /\ Len(heap.tasks) >= Len(callerHeap.tasks)
    /\ \A a \in DOMAIN callerHeap.projs : heap.projs[a] = callerHeap.projs[a]
    /\ \A a \in DOMAIN callerHeap.tasks : heap.tasks[a] = callerHeap.tasks[a]
    /\ \A i \in DOMAIN enrichedProjects :
        /\ enrichedProjects[i] \notin DOMAIN callerHeap.projs
        /\ \A a \in Range(heap.projs[enrichedProjects[i]].tasks) :
                a \notin DOMAIN callerHeap.tasks

\* The call has returned a task with fetched comments, for an input whose
\* objects carried comments of an earlier enrichment.
C10_Witness ==
    /\ epc = "done"
    /\ \E a \in DOMAIN callerHeap.tasks : callerHeap.tasks[a].comments # <<>>
    /\ \E i \in DOMAIN enrichedProjects :
        /\ heap.projs[enrichedProjects[i]].recentComments # <<>>
        /\ \E a \in Range(heap.projs[enrichedProjects[i]].tasks) :
            /\ heap.tasks[a].comments # <<>>
            /\ \A c \in Range(heap.tasks[a].comments) : c.task_id = heap.tasks[a].id

(***************************************************************************)
(* Properties of processTasksIntoProjects                                  *)
(***************************************************************************)
\* The call on rawTasks has returned.
ProcessReturned == apc \in {"returned", "reprocessed"}

\* The entries of the input that are tasks of a list.
ListedTasks == {k \in DOMAIN rawTasks.items :
                    ~rawTasks.items[k].isNull /\ rawTasks.items[k].list.present}

\* The ids of the tasks of a project.
TaskIds(p) == {p.tasks[k].id : k \in DOMAIN p.tasks}

\* C11: in every project of the output the open and the completed tasks add
\* up to the total, and percentComplete is completedTasks / totalTasks as a
\* percentage rounded to the nearest integer (0 for no tasks), within 0..100.
C11_StatsAddUp ==
    ProcessReturned =>
        \A i \in DOMAIN processed :
            LET st == processed[i].stats
                exact == st.completedTasks * 100
                given == st.percentComplete * st.totalTasks
            IN  /\ st.openTasks + st.completedTasks = st.totalTasks
                /\ st.totalTasks = 0 => st.percentComplete = 0
                /\ st.totalTasks > 0 =>
                      /\ 2 * (exact - given) <= st.totalTasks
                      /\ 2 * (given - exact) <= st.totalTasks
                /\ st.percentComplete \in 0..100

\* 23 of 40 tasks are closed: 57.5 percent, which the doubles of the code
\* make 57.49999999999999 and Math.round makes 57.
C11_Witness ==
    /\ ProcessReturned
    /\ \E i \in DOMAIN processed :
        /\ processed[i].stats.totalTasks = 40
        /\ processed[i].stats.completedTasks = 23
        /\ processed[i].stats.percentComplete = 57

\* The name is the lower-case word in some casing.
InAnyCasing(name, word) ==
    /\ Len(name) = Len(word)
    /\ \A k \in DOMAIN name :
        \/ name[k] = word[k]
        \/ \E i \in DOMAIN LowerLetters :
                LowerLetters[i] = word[k] /\ UpperLetters[i] = name[k]

\* Closed as the contract words it: the status type is "closed", or the status
\* name is "complete" or "closed" in any casing.
ClosedTask(task) ==
    /\ task.status.present
    /\ \/ task.status.type = "closed"
       \/ InAnyCasing(task.status.status, LowerComplete)
       \/ InAnyCasing(task.status.status, LowerClosed)

\* The task has a due date that reads as a number.
HasDueDate(task) == ~task.due_date.isNull /\ task.due_date.str.numeric
DueValue(task) == task.due_date.str.value

\* C12: in every project, openTasks counts the tasks that are not closed;
\* overdueTasks counts only open tasks due before now and dueNext7Days only
\* open tasks due within [now, now + 7 days]; so no task is counted twice and
\* overdueTasks + dueNext7Days <= openTasks.
C12_OverdueAndDueSoonDisjoint ==
    ProcessReturned =>
        \A i \in DOMAIN processed :
            LET p == processed[i]
                open == {k \in DOMAIN p.tasks : ~ClosedTask(p.tasks[k])}
                late == {k \in open : /\ HasDueDate(p.tasks[k])
                                      /\ DueValue(p.tasks[k]) < Now}
                soon == {k \in open : /\ HasDueDate(p.tasks[k])
                                      /\ DueValue(p.tasks[k]) >= Now
                                      /\ DueValue(p.tasks[k]) <= Now + (7 * 24 * 60 * 60)}
            IN  /\ p.stats.openTasks = Cardinality(open)
                /\ p.stats.completedTasks = Len(p.tasks) - Cardinality(open)
                /\ p.stats.overdueTasks <= Cardinality(late)
                /\ p.stats.dueNext7Days <= Cardinality(soon)
                /\ p.stats.overdueTasks + p.stats.dueNext7Days <= p.stats.openTasks

\* A project holds a task that is closed by its status name only and has a
\* due date in the past, next to an overdue open task and one due soon.
C12_Witness ==
    /\ ProcessReturned
    /\ \E i \in DOMAIN processed :
        /\ processed[i].stats.overdueTasks = 1
        /\ processed[i].stats.dueNext7Days = 1
        /\ processed[i].stats.completedTasks = 1
        /\ \E k \in DOMAIN processed[i].tasks :
            /\ processed[i].tasks[k].status.type # "closed"
            /\ ClosedTask(processed[i].tasks[k])
            /\ DueValue(processed[i].tasks[k]) < Now

\* C13: the risk level of every project is High if it has overdue tasks,
\* otherwise Medium if something is due within 7 days and less than 50
\* percent is complete, otherwise Low.
C13_RiskFromStatistics ==
    ProcessReturned =>
        \A i \in DOMAIN processed :
            LET st == processed[i].stats
            IN  /\ st.overdueTasks > 0 => processed[i].riskLevel = "High"
                /\ (st.overdueTasks = 0 /\ st.dueNext7Days > 0 /\ st.percentComplete < 50)
                      => processed[i].riskLevel = "Medium"
                /\ (st.overdueTasks = 0 /\ ~(st.dueNext7Days > 0 /\ st.percentComplete < 50))
                      => processed[i].riskLevel = "Low"

\* One closed task and one open task two days overdue make a project that is
\* High at 50 percent.
C13_Witness ==
    /\ ProcessReturned
    /\ \E i \in DOMAIN processed :
        /\ processed[i].stats.totalTasks = 2
        /\ processed[i].stats.completedTasks = 1
        /\ processed[i].stats.overdueTasks = 1
        /\ processed[i].stats.percentComplete = 50
        /\ processed[i].riskLevel = "High"
        /\ \E k \in DOMAIN processed[i].tasks :
            /\ ~ClosedTask(processed[i].tasks[k])
            /\ DueValue(processed[i].tasks[k]) = Now - (2 * 24 * 60 * 60)

\* What a permutation must not change: each project's id, the tasks in it and
\* its statistics.
Grouping(ps) == {[id |-> ps[i].id, tasks |-> TaskIds(ps[i]), stats |-> ps[i].stats]
                 : i \in DOMAIN ps}

\* Both tasks are in one project of ps.
Together(ps, a, b) == \E i \in DOMAIN ps : {a, b} \subseteq TaskIds(ps[i])

\* C14: processing the same tasks in another order gives the same grouping:
\* the same project ids, the same tasks in each project and the same
\* statistics; and two tasks of one folder are in one project in either order.
C14_GroupingIsStable ==
    apc = "reprocessed" =>
        /\ Grouping(reprocessed) = Grouping(processed)
        /\ Cardinality(Grouping(processed)) = Len(processed)
        /\ Cardinality(Grouping(reprocessed)) = Len(reprocessed)
        /\ \A a, b \in ListedTasks :
              LET ta == rawTasks.items[a]
                  tb == rawTasks.items[b]
              IN  (/\ ta.folder.present /\ ta.folder.id # ""
                   /\ tb.folder.present /\ tb.folder.id = ta.folder.id)
                  => (Together(processed, a, b) /\ Together(reprocessed, a, b))

\* Three tasks of two groups have been processed in two different orders, the
\* two tasks of the folder apart in one order and adjacent in the other.
C14_Witness ==
    /\ apc = "reprocessed"
    /\ Len(rawTasks.items) = 3
    /\ Len(processed) = 2
    /\ rawTasks.items[1].folder = rawTasks.items[3].folder
    /\ rawTasks.items[1].folder.id = "7"
    /\ rawTasks.items[2].folder # rawTasks.items[1].folder
    /\ reordered.items[1].id = 1
    /\ reordered.items[2].id = 3

\* C15: every task of a folder is in a project with the folder's id and name,
\* every task of a loose list is in a project with the list's id and the name
\* "<list name> (List)", and no two projects of the output share an id.
C15_ProjectIdentity ==
    ProcessReturned =>
        /\ \A k \in ListedTasks :
              LET task == rawTasks.items[k]
                  inFolder == task.folder.present /\ task.folder.id # ""
              IN  \E i \in DOMAIN processed :
                      /\ k \in TaskIds(processed[i])
                      /\ inFolder =>
                            /\ processed[i].id = task.folder.id
                            /\ processed[i].name = [base |-> task.folder.name, suffix |-> ""]
                      /\ ~inFolder =>
                            /\ processed[i].id = task.list.id
                            /\ processed[i].name = [base |-> task.list.name, suffix |-> " (List)"]
        /\ \A i, j \in DOMAIN processed : processed[i].id = processed[j].id => i = j

\* Rank of a risk level: High before Medium before Low.
RiskRank(level) == IF level = "High" THEN 3 ELSE IF level = "Medium" THEN 2 ELSE 1

\* C16: the output is ordered by risk, High first, and within equal risk by
\* descending number of open tasks.
C16_OrderedByRiskThenOpenTasks ==
    ProcessReturned =>
        \A i, j \in DOMAIN processed :
            i < j =>
                \/ RiskRank(processed[i].riskLevel) > RiskRank(processed[j].riskLevel)
                \/ /\ RiskRank(processed[i].riskLevel) = RiskRank(processed[j].riskLevel)
                   /\ processed[i].stats.openTasks >= processed[j].stats.openTasks

\* Three projects came out in the reverse of the order their first tasks came
\* in, two of them of equal risk and different open-task counts.
C16_Witness ==
    /\ ProcessReturned
    /\ Len(processed) = 3
    /\ 1 \in TaskIds(processed[3])
    /\ \E i \in 1..2 :
        /\ processed[i].riskLevel = processed[i + 1].riskLevel
        /\ processed[i].stats.openTasks > processed[i + 1].stats.openTasks
    /\ \E i \in 1..2 : processed[i].riskLevel # processed[i + 1].riskLevel

(***************************************************************************)
(* Properties of the dashboard                                             *)
(***************************************************************************)
\* The step is initApp's first: the component mounts.
MountStep == refreshes = <<>> /\ refreshes' # <<>>

\* The step is a later step of initApp (refresh 1).
StartupStep == Mounted /\ refreshes'[1] # refreshes[1]

\* C17: with a snapshot in storage, the cached spaces and projects are on
\* display from the mount on, no step of the startup sets the loading flag
\* and the startup's loadAllData runs in background mode; without one, the
\* loading flag is set at the mount and stays set until the startup has
\* ended (its loadAllData has completed or failed).
C17_CacheFirstStartup ==
    /\ [][MountStep =>
             IF refreshes'[1].background
             THEN /\ app'.spaces = Parse(localStorage.spaces)
                  /\ app'.projects = Parse(localStorage.projects)
                  /\ ~app'.loading
             ELSE app'.loading]_vars
    /\ [][(StartupStep /\ refreshes[1].background) =>
             /\ ~(app'.loading /\ ~app.loading)
             /\ refreshes'[1].background]_vars
    /\ []((Mounted /\ ~refreshes[1].background /\ refreshes[1].pc # "done")
             => app.loading)

\* C18: a refresh the timer started never calls the AI summary, and the timer
\* starts the refresh of the scope on display: loadAllData in background mode
\* in the home view, loadSpaceData of the selected space, with the summary
\* skipped, in the space view.
C18_TimerNeverSummarizes ==
    /\ [](\A r \in DOMAIN refreshes :
             refreshes[r].trigger = "timer" =>
                 (~Summarized(r) /\ refreshes[r].pc # "summary"))
    /\ [][(/\ Len(refreshes') = Len(refreshes) + 1
           /\ refreshes'[Len(refreshes')].trigger = "timer") =>
             LET started == refreshes'[Len(refreshes')]
             IN  /\ app.view = "home" =>
                       (started.kind = "all" /\ started.background)
                 /\ app.view = "space" =>
                       /\ started.kind = "space"
                       /\ started.spaceId = app.selectedSpaceId
                       /\ started.skipAI]_vars

\* A refresh the timer started in the space view has fetched, enriched and
\* saved, and has ended, after the selection of the space had called the AI
\* summary.
C18_Witness ==
    /\ aiCalls # {}
    /\ \E r \in DOMAIN refreshes :
        /\ refreshes[r].trigger = "timer"
        /\ refreshes[r].kind = "space"
        /\ refreshes[r].pc = "done"
        /\ lastSave.by = r
        /\ app.projects.by = r
        /\ app.projects.rich

\* C19: a saveToCache call in which a setItem throws raises nothing (the
\* refresh goes on, no error banner is set) and leaves the four entries of the
\* snapshot in storage as they were.
C19_FailedSaveLeavesSnapshot ==
    [][(lastSave' # lastSave /\ lastSave'.failedAt # NoFailure) =>
          /\ refreshes'[lastSave'.by].pc \in {"done", "summary"}
          /\ app'.error = app.error
          /\ localStorage' = localStorage]_vars

\* C20: loadFromCache returns false when the spaces or the projects entry is
\* missing or an entry does not parse, and then the spaces, projects,
\* comment feed and last-updated of the component are as they were.
C20_UnreadableCacheIsNoCache ==
    [][MountStep =>
          LET missing == \/ localStorage.spaces.kind = "absent"
                         \/ localStorage.projects.kind = "absent"
              unparsable == \/ localStorage.spaces.kind = "garbage"
                            \/ localStorage.projects.kind = "garbage"
                            \/ localStorage.comments.kind = "garbage"
              hasCache == refreshes'[1].background
          IN  /\ (missing \/ unparsable) => ~hasCache
              /\ ~hasCache =>
                    /\ app'.spaces = app.spaces
                    /\ app'.projects = app.projects
                    /\ app'.recentGlobalComments = app.recentGlobalComments
                    /\ app'.lastUpdated = app.lastUpdated]_vars

\* The step moves refresh r on.
StepOf(r) == refreshes'[r].pc # refreshes[r].pc

\* The positions a loadSpaceData call passes, in order: the task fetch, the
\* enrichment, the AI summary, the end.
SpaceRefreshMoves ==
    { <<"tasks", "enrich">>, <<"tasks", "done">>, <<"enrich", "summary">>,
      <<"enrich", "done">>, <<"summary", "done">> }

\* C21: a loadSpaceData call fetches and aggregates the tasks of its space and
\* applies the visibility filter, then enriches, then derives the feed and
\* calls saveToCache with the spaces, the enriched projects, the feed and the
\* time (all four entries are written when no setItem call throws; when the
\* k-th throws, the entries before it are written and the others stay as
\* they were), and only then,
\* and only when it is not marked skip, calls the AI summary, once, with the
\* enriched projects and the feed; manual refreshes and space selections are
\* not marked skip.
C21_SpaceRefreshStepOrder ==
    /\ [][\A r \in DOMAIN refreshes :
            (refreshes[r].kind = "space" /\ StepOf(r)) =>
                /\ <<refreshes[r].pc, refreshes'[r].pc>> \in SpaceRefreshMoves
                /\ refreshes[r].pc = "tasks" =>
                    /\ aiCalls' = aiCalls
                    /\ lastSave' = lastSave
                    /\ refreshes'[r].pc = "enrich" =>
                        /\ app'.projects.origin = "refresh"
                        /\ app'.projects.by = r
                        /\ app'.projects.scope = refreshes[r].spaceId
                        /\ app'.projects.filter # "none"
                        /\ ~app'.projects.rich
                /\ refreshes[r].pc = "enrich" =>
                    /\ app'.projects.by = r
                    /\ app'.projects.scope = refreshes[r].spaceId
                    /\ app'.projects.rich
                    /\ app'.recentGlobalComments.by = r
                    /\ app'.recentGlobalComments.rich
                    /\ lastSave'.by = r
                    /\ lastSave'.failedAt \in SetItemFailures
                    /\ localStorage' =
                            SaveToCache(localStorage, refreshes[r].spacesList,
                                        app'.projects, app'.recentGlobalComments,
                                        r, lastSave'.failedAt)
                    /\ lastSave'.failedAt = NoFailure =>
                        localStorage' =
                            Snapshot(Stored(refreshes[r].spacesList),
                                     Stored(app'.projects),
                                     Stored(app'.recentGlobalComments),
                                     Stored(DateOf(r)))
                    /\ IF ~refreshes[r].skipAI
                       THEN /\ refreshes'[r].pc = "summary"
                            /\ ~Summarized(r)
                            /\ aiCalls' = aiCalls \cup
                                {SummaryCall(r, app'.projects, app'.recentGlobalComments)}
                       ELSE /\ refreshes'[r].pc = "done"
                            /\ aiCalls' = aiCalls
                /\ refreshes[r].pc = "summary" =>
                    /\ aiCalls' = aiCalls
                    /\ lastSave' = lastSave]_vars
    /\ [][aiCalls' # aiCalls =>
            \E r \in DOMAIN refreshes :
                /\ refreshes[r].kind = "space"
                /\ refreshes[r].pc = "enrich"
                /\ refreshes'[r].pc = "summary"]_vars
    /\ [](\A r \in DOMAIN refreshes :
            /\ refreshes[r].trigger \in {"manual", "select", "card"} =>
                (refreshes[r].kind = "space" => ~refreshes[r].skipAI)
            /\ Summarized(r) => (refreshes[r].kind = "space" /\ ~refreshes[r].skipAI))

\* A manual refresh of the space on display has ended: it saved the enriched
\* projects and the feed, called the AI summary, and its analysis is shown.
C21_Witness ==
    \E r \in DOMAIN refreshes :
        /\ refreshes[r].trigger = "manual"
        /\ refreshes[r].kind = "space"
        /\ refreshes[r].pc = "done"
        /\ Summarized(r)
        /\ app.aiAnalysis.by = r
        /\ app.projects.by = r
        /\ app.projects.rich
        /\ lastSave = [by |-> r, failedAt |-> NoFailure, failures |-> 0]
        /\ localStorage.projects = Stored(app.projects)

\* The refreshes in flight.
InFlight == {r \in DOMAIN refreshes : refreshes[r].pc # "done"}

\* In the step, refresh r receives the tasks it awaited, or its projects
\* with their comments: it calls setProjects.
SetsProjects(r) ==
    \/ refreshes[r].kind \in {"init", "all"} /\ refreshes[r].pc = "tasks"
            /\ refreshes'[r].pc = "done" /\ lastSave' # lastSave
    \/ refreshes[r].kind = "space" /\ refreshes[r].pc = "tasks"
            /\ refreshes'[r].pc = "enrich"
    \/ refreshes[r].kind = "space" /\ refreshes[r].pc = "enrich" /\ StepOf(r)

\* How far a call has come: the awaits of loadInitialData, loadAllData and
\* loadSpaceData in the order the calls pass them.
Progress(pc) ==
    CASE pc = "spaces" -> 1
      [] pc = "tasks" -> 2
      [] pc = "enrich" -> 3
      [] pc = "summary" -> 4
      [] pc = "done" -> 5

\* C22: no step ends or changes a refresh other than the one whose await
\* settles in it, and the start of a refresh leaves the refreshes in flight
\* as they are; a refresh only ever moves forward through its awaits, and in
\* every state every refresh in flight can take its next step, whatever the
\* view, the selection and the other refreshes are (so each runs to its end
\* once its awaits settle); and whenever a refresh receives its projects it
\* writes them to the shared state, whatever other refreshes have started or
\* ended since it started.
C22_NoCancellationLastWriteWins ==
    /\ [][/\ Len(refreshes') >= Len(refreshes)
          /\ Len(refreshes') > Len(refreshes) =>
                SubSeq(refreshes', 1, Len(refreshes)) = refreshes
          /\ \A r, q \in DOMAIN refreshes :
                (refreshes'[r] # refreshes[r] /\ refreshes'[q] # refreshes[q]) => r = q
          /\ \A r \in DOMAIN refreshes :
                refreshes'[r] # refreshes[r] =>
                    Progress(refreshes'[r].pc) > Progress(refreshes[r].pc)
          /\ \A r \in DOMAIN refreshes :
                SetsProjects(r) =>
                    (app'.projects.origin = "refresh" /\ app'.projects.by = r)]_vars
    /\ [](\A r \in InFlight : ENABLED RefreshSettles(r))

\* The startup and the selection of a space overlapped and both have ended;
\* the startup's task response came after the space's projects, so the space
\* view shows the all-spaces projects of the startup next to the analysis of
\* the selection.
C22_Witness ==
    /\ InFlight = {}
    /\ app.view = "space"
    /\ \E r \in DOMAIN refreshes :
        /\ refreshes[r].kind = "space"
        /\ app.aiAnalysis.by = r
        /\ app.projects.origin = "refresh"
        /\ app.projects.by < r
        /\ app.projects.scope = HomeScope

\* In the step, the request refresh r awaited fails: the space listing of the
\* startup, or the first task page of loadAllData or loadSpaceData.
FailsInStep(r) ==
    \/ refreshes[r].pc = "spaces" /\ refreshes'[r].pc = "done"
    \/ /\ refreshes[r].pc = "tasks" /\ refreshes'[r].pc = "done"
       /\ (refreshes[r].kind = "space" \/ lastSave' = lastSave)

\* The step changes nothing of the component but the error banner and the
\* loading flags.
OnlyBannerAndFlags ==
    [app' EXCEPT !.error = app.error, !.loading = app.loading,
                 !.tasksLoading = app.tasksLoading,
                 !.commentsLoading = app.commentsLoading,
                 !.aiLoading = app.aiLoading] = app

\* C23: the step in which a refresh fails leaves the spaces, the projects and
\* the comment feed as they were; if the refresh is in the foreground it sets
\* the error banner, clears the loading flags and changes nothing else; if it
\* is a home-scope refresh in the background it leaves the error banner as it
\* was.
C23_FailedRefreshKeepsData ==
    [][\A r \in DOMAIN refreshes :
          FailsInStep(r) =>
              /\ app'.spaces = app.spaces
              /\ app'.projects = app.projects
              /\ app'.recentGlobalComments = app.recentGlobalComments
              /\ ~refreshes[r].background =>
                    /\ app'.error = r
                    /\ ~app'.loading
                    /\ OnlyBannerAndFlags
              /\ (refreshes[r].background /\ refreshes[r].kind \in {"init", "all"}) =>
                    app'.error = app.error]_vars

(***************************************************************************)
(* Properties of the output of enrichProjectsWithComments                  *)
(***************************************************************************)
\* The projects of the returned array.
OutputProjects == {heap.projs[enrichedProjects[i]] : i \in DOMAIN enrichedProjects}

\* parseInt(c.date) of a comment whose date reads as a number.
Timestamp(c) == ParseInt(c.date).value

RECURSIVE CommentsOfTasks(_, _)
CommentsOfTasks(h, taskAddrs) ==
    IF taskAddrs = <<>> THEN <<>>
    ELSE h.tasks[Head(taskAddrs)].comments \o CommentsOfTasks(h, Tail(taskAddrs))

\* How often c occurs in a list.
Occurrences(list, c) == Cardinality({k \in DOMAIN list : list[k] = c})

\* C30: in the output every project's recentComments holds exactly the
\* comments of its tasks: each comment occurs in it as often as in the
\* comments lists of the project's tasks taken together.
C30_CommentsAreThoseOfTheTasks ==
    epc = "done" =>
        \A p \in OutputProjects :
            LET attached == CommentsOfTasks(heap, p.tasks)
            IN  /\ Len(p.recentComments) = Len(attached)
                /\ \A c \in Range(p.recentComments) \cup Range(attached) :
                    Occurrences(p.recentComments, c) = Occurrences(attached, c)

(***************************************************************************)
(* Properties of processTasksIntoProjects: which tasks are counted         *)
(***************************************************************************)
\* The places of the output where input task k stands: project and position.
PlacesOf(k) ==
    {<<i, j>> \in (DOMAIN processed) \X (1..Len(rawTasks.items)) :
        j <= Len(processed[i].tasks) /\ processed[i].tasks[j].id = k}

\* The sum of totalTasks over the projects from index i on.
RECURSIVE TotalTasksFrom(_)
TotalTasksFrom(i) ==
    IF i > Len(processed) THEN 0
    ELSE processed[i].stats.totalTasks + TotalTasksFrom(i + 1)

\* C25: the call returns for every input; an entry without a list reference
\* stands in no project, every entry with one stands in exactly one project,
\* once; each project's totalTasks is the length of its tasks list, and the
\* totals of all projects sum to the number of entries with a list reference.
C25_UnlistedTasksSkipped ==
    ProcessReturned =>
        /\ \A k \in DOMAIN rawTasks.items :
            Cardinality(PlacesOf(k)) = IF k \in ListedTasks THEN 1 ELSE 0
        /\ \A i \in DOMAIN processed :
            /\ processed[i].stats.totalTasks = Len(processed[i].tasks)
            /\ Len(processed[i].tasks) > 0
        /\ TotalTasksFrom(1) = Cardinality(ListedTasks)

\* A task without a list reference stood before a task of a list: the call
\* returned one project, which holds the second task only.
C25_Witness ==
    /\ ProcessReturned
    /\ Len(rawTasks.items) = 2
    /\ ~rawTasks.items[1].isNull
    /\ ~rawTasks.items[1].list.present
    /\ ListedTasks = {2}
    /\ Len(processed) = 1
    /\ TaskIds(processed[1]) = {2}
    /\ processed[1].stats.totalTasks = 1

(***************************************************************************)
(* Properties of fetchWithRetry: the retry budget                          *)
(***************************************************************************)
\* C26: a fetchWithRetry call makes at most retries fetch() calls, sleeps only
\* between two attempts (at most retries - 1 times, and never once its last
\* attempt has failed), and starts with a budget of its own: a task page that
\* is requested has 4 attempts whatever the pages before it spent, a comment
\* fetch 2 and the space listing 3.
C26_RetryBudgetPerCall ==
    /\ [](/\ fwr.pc # "idle" =>
                /\ FwrRequests(fwr) <= fwr.retries
                /\ Len(sleeps) <= fwr.retries - 1
                /\ Len(sleeps) < FwrRequests(fwr) \/ fwr.pc = "sleeping"
                /\ fwr.pc = "sleeping" =>
                    (Len(sleeps) = FwrRequests(fwr) /\ FwrRequests(fwr) < fwr.retries)
          /\ call = "tasks" => (fwr.retries = 4 /\ FwrRequests(fwr) <= 4)
          /\ call = "comments" => (fwr.retries = 2 /\ FwrRequests(fwr) <= 2)
          /\ call = "spaces" => (fwr.retries = 3 /\ FwrRequests(fwr) <= 3))
    /\ [][(call = "tasks" /\ page' = page + 1 /\ outcome'.kind = "pending") =>
            /\ fwr'.retries = 4
            /\ fwr'.i = 0
            /\ fwr'.pc = "fetching"
            /\ sleeps' = <<>>]_vars

\* The second task page has failed on all of its 4 attempts, with 3 sleeps,
\* after the first page had been fetched.
C26_Witness ==
    /\ call = "tasks"
    /\ page = 1
    /\ fwr.pc = "thrown"
    /\ FwrRequests(fwr) = 4
    /\ Len(sleeps) = 3

(***************************************************************************)
(* Properties of the dashboard: overlapping refreshes, the analysis and    *)
(* the snapshot                                                            *)
(***************************************************************************)
\* The refreshes in flight that run in the foreground: every loadSpaceData
\* call, and the loadAllData calls (the startup's included) not in background
\* mode.
ForegroundInFlight ==
    {r \in InFlight : refreshes[r].kind = "space" \/ ~refreshes[r].background}

\* C27: while a loadSpaceData call or a foreground loadAllData call is in
\* flight, isGlobalLoading is true (the Sync Data button is disabled).
C27_LoadingCoversForegroundRefresh ==
    ForegroundInFlight # {} => IsGlobalLoading(app)

\* C28: when the space view is shown with an AI analysis and no refresh is in
\* flight, the analysis is the one a loadSpaceData call of the selected space
\* obtained.
C28_AnalysisBelongsToSelectedSpace ==
    (app.view = "space" /\ app.aiAnalysis # NoAnalysis /\ InFlight = {}) =>
        /\ app.aiAnalysis.space = app.selectedSpaceId
        /\ refreshes[app.aiAnalysis.by].kind = "space"
        /\ refreshes[app.aiAnalysis.by].spaceId = app.selectedSpaceId

\* What the next startup would put on display from the storage as it is:
\* loadFromCache() on the first render.
Restored == LoadFromCache(InitialState, localStorage)

\* C29: the startup opens the home view, and the projects a startup restores
\* from storage are an all-spaces list: the one an earlier session left, or
\* the one a home-scope refresh of this session saved; never the projects of
\* a single space.
C29_SnapshotIsHomeScope ==
    /\ ~Mounted => app.view = "home"
    /\ Restored.app.view = "home"
    /\ Restored.hasCache =>
        /\ Restored.app.projects.scope = HomeScope
        /\ Restored.app.projects.origin = "refresh" =>
                refreshes[Restored.app.projects.by].kind \in {"init", "all"}

====
